---- MODULE Spec2Model ----
(***************************************************************************)
(* Content-acquisition pipeline of the benefits chat: the breadth-first    *)
(* crawler of src/lib/scraper.ts and the re-index orchestration of         *)
(* src/lib/indexer.ts together with the corpus read of src/lib/search.ts.  *)
(*                                                                         *)
(* The specifications share the variables; each follows one part:          *)
(*   Spec         one call of crawlBenefitsPages                            *)
(*   SpecReindex  reindexContent calls against the store, interleaved with *)
(*                searchChunks calls (the crawl is that call's result)     *)
(*   SpecRoute    two POST /api/admin/reindex requests and the browser     *)
(*                singleton their crawls share                             *)
(*   SpecChat     one POST /api/chat request                               *)
(*   SpecEmbed    one call of generateEmbeddingsBatched                    *)
(*   SpecChunk    one call of chunkPage                                    *)
(*   SpecUrl      normalizeUrl applied twice                               *)
(*   SpecSim      one call of searchChunks over stored embedding strings   *)
(*   SpecAdmin    one request to an endpoint under /api/admin              *)
(***************************************************************************)
EXTENDS Integers, Sequences, FiniteSets, TLC

(***************************************************************************)
(* Bounds of the model.                                                    *)
(***************************************************************************)
\* longest list of links one page yields in the model
MaxLinks == 2
\* largest configured MAX_PAGES_TO_CRAWL the model starts from
MaxPagesCfg == 2
\* reindexContent calls made in one run of the model
MaxReindexCalls == 1
\* most chunks chunkPage cuts a crawled page into in the model
MaxChunksPerPage == 1
\* most pages one crawl visits where two requests overlap
MaxVisits == 2
\* most chunk rows of the store a chat request searches
MaxCorpus == 3
\* largest topK searchChunks is called with, next to the chat route's 5
MaxTopK == 2
\* most [N] markers of a generated text
MaxMarkers == 2
\* most texts generateEmbeddingsBatched is called with
MaxTexts == 4
\* largest batchSize it is called with
MaxBatchSize == 3
\* most words of a page chunkPage is called with
MaxWords == 600
\* most trailing slashes of a url normalizeUrl is called with
MaxSlashes == 2
\* entries of an embedding vector (EMBEDDING_DIMENSIONS, 1536 in the program)
MaxDims == 2
\* most chunk rows of the store searchChunks ranks by their embedding strings
MaxStored == 2
\* most parts (the text 'Bearer ' or a word) of an Authorization header
MaxHeaderParts == 2
\* most words of a configured ADMIN_TOKEN
MaxTokenParts == 1


(***************************************************************************)
(* URLs.  A URL string is modelled by the parts normalizeUrl and           *)
(* shouldCrawlUrl look at: the address up to the path without its trailing *)
(* slashes (base), the number of trailing slashes of the path, whether it  *)
(* carries a query and a fragment, and whether new URL() parses it.        *)
(***************************************************************************)
U(b, s, q, h) == [base |-> b, slashes |-> s, query |-> q, hash |-> h, parses |-> TRUE]

\* null, where a url may be missing (NavigationStep.parentUrl)
NULL == [base |-> 0, slashes |-> 0, query |-> FALSE, hash |-> FALSE, parses |-> FALSE]

\* scraper.ts:305-319.  hash and search are cleared, then ONE trailing slash
\* is cut from the serialised URL; a string that does not parse is returned
\* as it is.
normalizeUrl(u) ==
    IF ~u.parses
    THEN u
    ELSE [u EXCEPT !.hash = FALSE, !.query = FALSE,
                   !.slashes = IF @ > 0 THEN @ - 1 ELSE 0]

\* What shouldCrawlUrl reads of an address: host, path words, extension.
\* Base 1 is the seed page, 2 and 3 are benefit pages of the same host,
\* 4 is a page of another host, 5 a same-host page outside the benefit
\* paths, 6 a same-host benefits PDF.
BaseInfo(b) ==
    CASE b = 4 -> [sameHost |-> FALSE, benefitsPath |-> TRUE,  skipExt |-> FALSE]
      [] b = 5 -> [sameHost |-> TRUE,  benefitsPath |-> FALSE, skipExt |-> FALSE]
      [] b = 6 -> [sameHost |-> TRUE,  benefitsPath |-> TRUE,  skipExt |-> TRUE]
      [] OTHER -> [sameHost |-> TRUE,  benefitsPath |-> TRUE,  skipExt |-> FALSE]

\* scraper.ts:324-350
shouldCrawlUrl(u) ==
    /\ u.parses
    /\ BaseInfo(u.base).sameHost
    /\ BaseInfo(u.base).benefitsPath
    /\ ~BaseInfo(u.base).skipExt

\* The anchors a page of the site may carry (absolute, as discoverLinks
\* builds them with new URL(href, baseUrl).toString()).
LinkUniverse ==
    { U(1, 1, FALSE, FALSE), U(1, 2, FALSE, FALSE),
      U(2, 0, FALSE, FALSE), U(2, 0, TRUE, FALSE), U(3, 1, FALSE, TRUE),
      U(4, 0, FALSE, FALSE), U(5, 0, FALSE, FALSE), U(6, 0, FALSE, FALSE) }

\* The values AMEX_BENEFITS_URL is started with.
SeedUrls == { U(1, 0, FALSE, FALSE), U(1, 2, TRUE, FALSE) }

\* Lists of distinct anchors, at most MaxLinks long.
RECURSIVE LinkLists(_)
LinkLists(n) ==
    IF n = 0
    THEN { <<>> }
    ELSE LET shorter == LinkLists(n - 1)
         IN  shorter \cup
             { Append(l, u) : l \in { s \in shorter : Len(s) = n - 1 },
                              u \in LinkUniverse }

DistinctLinkLists ==
    { l \in LinkLists(MaxLinks) : \A i, j \in 1..Len(l) : i # j => l[i] # l[j] }

RECURSIVE Pow2(_)
Pow2(k) == IF k = 0 THEN 1 ELSE 2 * Pow2(k - 1)

\* scraper.ts:29, the default
SCRAPER_MAX_RETRIES == 3

\* scraper.ts:33-34
RATE_LIMIT_MIN_MS == 2000
RATE_LIMIT_MAX_MS == 5000

VARIABLES
    \* ---- configuration read at module load (scraper.ts:26-30)
    AMEX_BENEFITS_URL, MAX_PAGES_TO_CRAWL,
    \* ---- crawlBenefitsPages (scraper.ts:386-520)
    cpc,              \* where the call stands
    pages,            \* ScrapedPage[]: the urls of the collected pages
    navigationSteps,  \* NavigationStep[]
    visited,          \* Set of normalized urls
    queue,            \* the frontier
    current,          \* the entry popped last
    retryCount,       \* scrapePage's retryCount for current
    attempts,         \* fetch+extract attempts made for current
    backoffs,         \* the waits scrapePage made for current, in ms
    delayMs,          \* the politeness delay slept before the next pop
    pops,             \* queue.shift() calls made so far
    lastError,        \* what threw in the attempt scrapePage is retrying
    cycleDropped,     \* the link discovery just made met a link to a visited url
    \* ---- the store (prisma): tables crawlSession, navigationStep, page,
    \* ---- chunk, adminLog
    sessions,         \* crawlSession rows, the id is the index
    dbNavSteps,       \* navigationStep rows
    dbPages,          \* page rows
    dbChunks,         \* chunk rows
    adminLog,         \* the status of the adminLog rows, oldest first
    \* ---- reindexContent (indexer.ts:10-224)
    rpc,              \* where the call stands
    calls,            \* reindexContent calls started so far
    crawlSession,     \* id of the local crawlSession, 0 while it is null
    crawlResult,      \* what crawlBenefitsPages returned to the call
    embeddings,       \* what generateEmbeddingsBatched returned
    chunksStored,     \* chunks the storing loop has created
    lastOutcome,      \* how the last finished call ended
    \* ---- what the properties need to remember of the running call
    corpusAtStart,    \* page and chunk rows stored when the call began
    zeroPages,        \* its crawl returned no page
    embedFailed,      \* its embedding generation threw
    markRejected,     \* the store rejected the catch block's status update
    \* ---- searchChunks (search.ts:23-106)
    spc,              \* where the call stands
    snapshot,         \* the chunk rows findMany returned
    snapMidReindex,   \* findMany ran while a reindexContent call was storing
    \* ---- POST /api/admin/reindex (route.ts:8-57), two requests in one
    \* ---- process, and the browser singleton of scraper.ts:44-111
    requests,         \* per request: where it stands and what it holds
    browserInstance,  \* the module-level handle, 0 while it is null
    browserContext,   \* the module-level handle, 0 while it is null
    browsers,         \* the Browser objects launched so far, open or closed
    contexts,         \* the BrowserContext objects created so far
    \* ---- POST /api/chat (part_005:19-105): searchChunks,
    \* ---- calculateAverageSearchSimilarity, generateResponse
    chatCaller,       \* "route", or "direct" for a call of generateResponse alone
    chpc,             \* where the request stands
    query,            \* the message: "blank" or "text"
    corpus,           \* the chunk rows findMany returns, with their similarity
    topK,
    searchResults,    \* SearchResult[]
    confidence,       \* the confidence score, a fraction of hundredths
    rawResponse,      \* the text the generation service returned
    response,         \* GeneratedResponse
    llmCalls,         \* calls made to the generation service
    \* ---- generateEmbeddingsBatched (part_006:52-74)
    epc,              \* where the call stands
    inputTexts,       \* the texts the call was given
    batchSize,
    batchStart,       \* the loop variable i
    allEmbeddings,
    embedTrace,       \* what the call did so far: batches sent, delays slept
    \* ---- chunkPage (part_007:113-137)
    pageWords,        \* the number of words of page.content
    chunkedContent,   \* the chunks returned, once it has returned
    \* ---- normalizeUrl (scraper.ts:305-319) applied to its own result
    urlInput,
    urlOutputs,       \* normalizeUrl(u), normalizeUrl(normalizeUrl(u))
    \* ---- searchChunks (search.ts:23-106) over stored embedding strings
    simpc,            \* "start", "returned", "threw"
    queryEmbedding,   \* what generateEmbedding(query) delivers
    storedEmbeddings, \* chunk.embedding of the rows findMany returns
    simTopK,
    simResults,       \* SearchResult[]
    \* ---- the endpoints under /api/admin (token check of each handler)
    adminToken,       \* process.env.ADMIN_TOKEN
    adminRequest,     \* the endpoint asked and the Authorization header
    adminResponse     \* status code; whether a reindex ran or data was returned

crawlVars == << AMEX_BENEFITS_URL, MAX_PAGES_TO_CRAWL,
                cpc, pages, navigationSteps, visited, queue, current,
                retryCount, attempts, backoffs, delayMs, pops, lastError,
                cycleDropped >>

storeVars == << sessions, dbNavSteps, dbPages, dbChunks, adminLog >>

reindexVars == << rpc, calls, crawlSession, crawlResult, embeddings, chunksStored,
                  lastOutcome, corpusAtStart, zeroPages, embedFailed, markRejected >>

searchVars == << spc, snapshot, snapMidReindex >>

routeVars == << requests, browserInstance, browserContext, browsers, contexts >>

chatVars == << chatCaller, chpc, query, corpus, topK, searchResults, confidence, rawResponse,
               response, llmCalls >>

embedVars == << epc, inputTexts, batchSize, batchStart, allEmbeddings, embedTrace >>

chunkVars == << pageWords, chunkedContent >>

urlVars == << urlInput, urlOutputs >>

simVars == << simpc, queryEmbedding, storedEmbeddings, simTopK, simResults >>

adminVars == << adminToken, adminRequest, adminResponse >>

\* the variables of the calls modelled one at a time, each under a
\* specification of its own
restVars == << routeVars, chatVars, embedVars, chunkVars, urlVars, simVars, adminVars >>

vars == << crawlVars, storeVars, reindexVars, searchVars, restVars >>

NoEntry == [url |-> NULL, depth |-> 0, parentUrl |-> NULL]

(***************************************************************************)
(* Each specification follows one part of the program; the variables of    *)
(* the other parts keep the values below.                                  *)
(***************************************************************************)
IdleCrawl ==
    /\ cpc = "idle"
    /\ pages = <<>>
    /\ navigationSteps = <<>>
    /\ visited = {}
    /\ queue = <<>>
    /\ current = NoEntry
    /\ retryCount = 0
    /\ attempts = 0
    /\ backoffs = <<>>
    /\ delayMs = 0
    /\ pops = 0
    /\ lastError = "none"
    /\ cycleDropped = FALSE

IdleRoute ==
    /\ requests = <<>>
    /\ browserInstance = 0
    /\ browserContext = 0
    /\ browsers = <<>>
    /\ contexts = <<>>

IdleChat ==
    /\ chatCaller = "route"
    /\ chpc = "idle"
    /\ query = "text"
    /\ corpus = <<>>
    /\ topK = 0
    /\ searchResults = <<>>
    /\ confidence = [num |-> 0, den |-> 1]
    /\ rawResponse = <<>>
    /\ response = [message |-> "none", citations |-> <<>>, confidence |-> [num |-> 0, den |-> 1]]
    /\ llmCalls = 0

IdleEmbed ==
    /\ epc = "idle"
    /\ inputTexts = <<>>
    /\ batchSize = 1
    /\ batchStart = 0
    /\ allEmbeddings = <<>>
    /\ embedTrace = <<>>

IdleChunk ==
    /\ pageWords = 0
    /\ chunkedContent = [returned |-> FALSE, chunks |-> <<>>]

IdleUrl ==
    /\ urlInput = NULL
    /\ urlOutputs = <<>>

\* null and undefined, where a string may be missing
Null == [kind |-> "null", text |-> <<>>]

Undefined == [kind |-> "undefined", text |-> <<>>]

\* no response sent
NotAnswered == [code |-> 0, performed |-> FALSE]

IdleAdmin ==
    /\ adminToken = Undefined
    /\ adminRequest = [endpoint |-> "none", authorization |-> Null]
    /\ adminResponse = NotAnswered

IdleSim ==
    /\ simpc = "idle"
    /\ queryEmbedding = [kind |-> "none", value |-> [isArray |-> TRUE, items |-> <<>>]]
    /\ storedEmbeddings = <<>>
    /\ simTopK = 0
    /\ simResults = <<>>

IdleRest == IdleRoute /\ IdleChat /\ IdleEmbed /\ IdleChunk /\ IdleUrl /\ IdleSim /\ IdleAdmin

(***************************************************************************)
(* crawlBenefitsPages                                                      *)
(***************************************************************************)
InitCrawl ==
    /\ AMEX_BENEFITS_URL \in SeedUrls
    /\ MAX_PAGES_TO_CRAWL \in 1..MaxPagesCfg
    /\ cpc = "idle"
    /\ pages = <<>>
    /\ navigationSteps = <<>>
    /\ visited = {}
    /\ queue = <<>>
    /\ current = NoEntry
    /\ retryCount = 0
    /\ attempts = 0
    /\ backoffs = <<>>
    /\ delayMs = 0
    /\ pops = 0
    /\ lastError = "none"
    /\ cycleDropped = FALSE

\* scraper.ts:390-398
CrawlStart ==
    /\ cpc = "idle"
    /\ pages' = <<>>
    /\ navigationSteps' = <<>>
    /\ visited' = {}
    /\ queue' = << [url |-> normalizeUrl(AMEX_BENEFITS_URL), depth |-> 0, parentUrl |-> NULL] >>
    /\ cpc' = "loop"
    /\ pops' = 0
    /\ UNCHANGED << AMEX_BENEFITS_URL, MAX_PAGES_TO_CRAWL,
                    current, retryCount, attempts, backoffs, delayMs, lastError,
                    cycleDropped >>
    /\ UNCHANGED << storeVars, reindexVars, searchVars, restVars >>

\* the loop condition with the budget test off by one
LoopContinuesPastBudget(q, p) == Len(q) > 0 /\ Len(p) <= MAX_PAGES_TO_CRAWL

\* scraper.ts:400, the loop condition
LoopContinues(q, p) == Len(q) > 0 /\ Len(p) < MAX_PAGES_TO_CRAWL

\* the popped url is not remembered
MarkVisitedForgets(v, u) == v

\* scraper.ts:409
MarkVisited(v, u) == v \cup { normalizeUrl(u) }

\* scraper.ts:400-411: the loop test, the pop and the visited check
LoopHead ==
    /\ cpc = "loop"
    /\ IF ~LoopContinues(queue, pages)
       THEN /\ cpc' = "closing"
            /\ UNCHANGED << queue, visited, current, retryCount, attempts, backoffs, pops >>
       ELSE /\ queue' = Tail(queue)
            /\ pops' = pops + 1
            /\ IF normalizeUrl(Head(queue).url) \in visited
               THEN /\ cpc' = "loop"
                    /\ UNCHANGED << visited, current, retryCount, attempts, backoffs >>
               ELSE /\ visited' = MarkVisited(visited, Head(queue).url)
                    /\ current' = Head(queue)
                    /\ retryCount' = 0
                    /\ attempts' = 0
                    /\ backoffs' = <<>>
                    /\ cpc' = "scrape"
    /\ delayMs' = 0
    /\ UNCHANGED << AMEX_BENEFITS_URL, MAX_PAGES_TO_CRAWL,
                    pages, navigationSteps, lastError, cycleDropped >>
    /\ UNCHANGED << storeVars, reindexVars, searchVars, restVars >>

\* the retry test with the ceiling off by one
ShouldRetryOnceMore(rc) == rc < SCRAPER_MAX_RETRIES

\* scraper.ts:284, the retry test of scrapePage
ShouldRetry(rc) == rc < SCRAPER_MAX_RETRIES - 1

\* scraper.ts:285
BackoffMs(rc) == Pow2(rc) * 1000

\* the step recorded as scraped whatever scrapePage returned
NavStepAlwaysScraped(cur, ok) ==
    [url |-> cur.url, depth |-> cur.depth, parentUrl |-> cur.parentUrl, scraped |-> TRUE]

\* scraper.ts:413-434: the step recorded for the popped entry
NavStep(cur, ok) ==
    [url |-> cur.url, depth |-> cur.depth, parentUrl |-> cur.parentUrl, scraped |-> ok]

\* scraper.ts:424-437: what the loop does with scrapePage's result
AfterScrape(ok) ==
    /\ pages' = IF ok THEN Append(pages, current.url) ELSE pages
    /\ navigationSteps' = Append(navigationSteps, NavStep(current, ok))
    /\ cpc' = IF Len(pages') < MAX_PAGES_TO_CRAWL THEN "discover" ELSE "ratelimit"

\* scraper.ts:181-293, one attempt of scrapePage for current.url, and
\* scraper.ts:424-437 when it returns to the loop.  outcome:
\*   "page"         the page was fetched and extracted (l.261)
\*   "insufficient" the extracted content is under 100 chars: null (l.251-254)
\*   "navigation"   opening or reading the page threw (l.187-245) and the
\*                  catch block ran through (l.267-292)
\*   "extraction"   the page was read, extractContentWithLLM threw (l.248:
\*                  the service failed or JSON.parse of l.160 met malformed
\*                  output) and the catch block ran through
\*   "closeThrows"  something threw after newPage and page.close() of l.281
\*                  rejects: scrapePage rejects, crawlBenefitsPages catches
\*                  (l.515), closes the browser and rethrows
ScrapeAttempt ==
    /\ cpc = "scrape"
    /\ attempts' = attempts + 1
    /\ \E outcome \in { "page", "insufficient", "navigation", "extraction", "closeThrows" } :
         CASE outcome = "page" ->
                /\ AfterScrape(TRUE)
                /\ lastError' = "none"
                /\ UNCHANGED << backoffs >>
           [] outcome = "insufficient" ->
                /\ AfterScrape(FALSE)
                /\ lastError' = "none"
                /\ UNCHANGED << backoffs >>
           [] outcome \in { "navigation", "extraction" } ->
                IF ShouldRetry(retryCount)
                THEN /\ backoffs' = Append(backoffs, BackoffMs(retryCount))
                     /\ lastError' = outcome
                     /\ cpc' = "backoff"
                     /\ UNCHANGED << pages, navigationSteps >>
                ELSE /\ AfterScrape(FALSE)
                     /\ lastError' = "none"
                     /\ UNCHANGED << backoffs >>
           [] outcome = "closeThrows" ->
                /\ cpc' = "threw"
                /\ lastError' = "none"
                /\ UNCHANGED << pages, navigationSteps, backoffs >>
    /\ UNCHANGED << AMEX_BENEFITS_URL, MAX_PAGES_TO_CRAWL,
                    visited, queue, current, retryCount, delayMs, pops, cycleDropped >>
    /\ UNCHANGED << storeVars, reindexVars, searchVars, restVars >>

\* scraper.ts:287-288: the backoff has elapsed, scrapePage calls itself
BackoffElapsed ==
    /\ cpc = "backoff"
    /\ retryCount' = retryCount + 1
    /\ cpc' = "scrape"
    /\ UNCHANGED << AMEX_BENEFITS_URL, MAX_PAGES_TO_CRAWL,
                    pages, navigationSteps, visited, queue, current,
                    attempts, backoffs, delayMs, pops, lastError, cycleDropped >>
    /\ UNCHANGED << storeVars, reindexVars, searchVars, restVars >>

\* the test without its look at the visited urls
ShouldEnqueueIgnoresVisited(q, v, link) ==
    \A i \in 1..Len(q) : normalizeUrl(q[i].url) # normalizeUrl(link)

\* the test without its look at the frontier
ShouldEnqueueIgnoresFrontier(q, v, link) == normalizeUrl(link) \notin v

\* scraper.ts:482, the test a discovered link passes to be queued
ShouldEnqueue(q, v, link) ==
    /\ normalizeUrl(link) \notin v
    /\ \A i \in 1..Len(q) : normalizeUrl(q[i].url) # normalizeUrl(link)

\* a child queued at its parent's depth
ChildDepthSame(cur) == cur.depth

\* scraper.ts:485
ChildDepth(cur) == cur.depth + 1

\* the discovered links put at the head of the frontier
RECURSIVE EnqueueAtHead(_, _, _, _)
EnqueueAtHead(q, v, cur, links) ==
    IF links = <<>>
    THEN q
    ELSE EnqueueAtHead(IF ShouldEnqueue(q, v, Head(links))
                       THEN << [url |-> Head(links), depth |-> ChildDepth(cur),
                                parentUrl |-> cur.url] >> \o q
                       ELSE q,
                       v, cur, Tail(links))

\* scraper.ts:480-490
RECURSIVE Enqueue(_, _, _, _)
Enqueue(q, v, cur, links) ==
    IF links = <<>>
    THEN q
    ELSE Enqueue(IF ShouldEnqueue(q, v, Head(links))
                 THEN Append(q, [url |-> Head(links), depth |-> ChildDepth(cur),
                                 parentUrl |-> cur.url])
                 ELSE q,
                 v, cur, Tail(links))

\* scraper.ts:376, the filter of discoverLinks
RECURSIVE FilterCrawlable(_)
FilterCrawlable(links) ==
    IF links = <<>>
    THEN <<>>
    ELSE IF shouldCrawlUrl(Head(links))
         THEN << Head(links) >> \o FilterCrawlable(Tail(links))
         ELSE FilterCrawlable(Tail(links))

\* scraper.ts:355-381: what discoverLinks returns for the anchor lists a
\* page may carry
DiscoveredLinkLists == { FilterCrawlable(anchors) : anchors \in DistinctLinkLists }

\* scraper.ts:437-496 with discoverLinks (355-381): the page is opened again,
\* its anchors are read and filtered, and the new ones are queued.  Any
\* error in there is caught (l.493, l.377): nothing is queued.
DiscoverLinks ==
    /\ cpc = "discover"
    /\ \E failed \in BOOLEAN :
         \E links \in IF failed THEN { <<>> } ELSE DiscoveredLinkLists :
           /\ queue' = IF failed
                       THEN queue
                       ELSE Enqueue(queue, visited, current, links)
           /\ cycleDropped' = \E i \in 1..Len(links) : normalizeUrl(links[i]) \in visited
    /\ cpc' = "ratelimit"
    /\ UNCHANGED << AMEX_BENEFITS_URL, MAX_PAGES_TO_CRAWL,
                    pages, navigationSteps, visited, current,
                    retryCount, attempts, backoffs, delayMs, pops, lastError >>
    /\ UNCHANGED << storeVars, reindexVars, searchVars, restVars >>

\* the delay without RATE_LIMIT_MIN_MS added
RandomDelaysUnscaled == { 0, RATE_LIMIT_MAX_MS - RATE_LIMIT_MIN_MS - 1 }

\* scraper.ts:298-300: floor(random * (MAX - MIN) + MIN), random in [0, 1);
\* the least and the greatest value stand for the range.
RandomDelays == { RATE_LIMIT_MIN_MS, RATE_LIMIT_MAX_MS - 1 }

\* scraper.ts:498-503
RateLimit ==
    /\ cpc = "ratelimit"
    /\ IF Len(queue) > 0
       THEN delayMs' \in RandomDelays
       ELSE delayMs' = 0
    /\ cycleDropped' = FALSE
    /\ cpc' = "loop"
    /\ UNCHANGED << AMEX_BENEFITS_URL, MAX_PAGES_TO_CRAWL,
                    pages, navigationSteps, visited, queue, current,
                    retryCount, attempts, backoffs, pops, lastError >>
    /\ UNCHANGED << storeVars, reindexVars, searchVars, restVars >>

\* scraper.ts:506-519: closeBrowser, then the result is returned; when
\* closeBrowser rejects the catch block runs and the call throws.
CrawlReturn ==
    /\ cpc = "closing"
    /\ \E closed \in BOOLEAN : cpc' = IF closed THEN "returned" ELSE "threw"
    /\ UNCHANGED << AMEX_BENEFITS_URL, MAX_PAGES_TO_CRAWL,
                    pages, navigationSteps, visited, queue, current,
                    retryCount, attempts, backoffs, delayMs, pops, lastError,
                    cycleDropped >>
    /\ UNCHANGED << storeVars, reindexVars, searchVars, restVars >>

NextCrawl ==
    \/ CrawlStart
    \/ LoopHead
    \/ ScrapeAttempt
    \/ BackoffElapsed
    \/ DiscoverLinks
    \/ RateLimit
    \/ CrawlReturn

(***************************************************************************)
(* The store and reindexContent                                            *)
(***************************************************************************)
\* The urls a crawl visits in the model: the seed and a page linked from it.
SeedPage == U(1, 0, FALSE, FALSE)
LinkedPage == U(2, 0, FALSE, FALSE)
ResultUrls == { SeedPage, LinkedPage }

\* scraper.ts:20-23, CrawlResult, as reindexContent uses it: steps are the
\* NavigationSteps (url, scraped), pages the ScrapedPages in step order,
\* each with the number of chunks chunkPage cuts its content into.
RECURSIVE PagesOf(_, _)
PagesOf(steps, nchunks) ==
    IF steps = <<>>
    THEN <<>>
    ELSE IF Head(steps).scraped
         THEN << [url |-> Head(steps).url, nchunks |-> nchunks[Head(steps).url]] >>
              \o PagesOf(Tail(steps), nchunks)
         ELSE PagesOf(Tail(steps), nchunks)

\* the seed's step comes first (scraper.ts:398)
StepLists ==
    { << [url |-> SeedPage, scraped |-> a] >> : a \in BOOLEAN }
    \cup
    { << [url |-> SeedPage, scraped |-> a], [url |-> LinkedPage, scraped |-> b] >> :
         a \in BOOLEAN, b \in BOOLEAN }

\* What crawlBenefitsPages can return: at least the seed's step, the pages
\* of the scraped steps.
CrawlResults ==
    { [steps |-> st, pages |-> PagesOf(st, nc)] :
        st \in StepLists, nc \in [ResultUrls -> 0..MaxChunksPerPage] }

NoResult == [steps |-> <<>>, pages |-> <<>>]

\* indexer.ts:114, chunkedPages.flatMap(p => p.chunks): the chunk texts in
\* order, a text named by its page and its place in the page
RECURSIVE AllChunks(_)
AllChunks(ps) ==
    IF ps = <<>>
    THEN <<>>
    ELSE [j \in 1..Head(ps).nchunks |-> [url |-> Head(ps).url, j |-> j]]
         \o AllChunks(Tail(ps))

\* embeddings.ts (part_006:52-74): one vector per text, in input order; a
\* vector is named by the text it was made from
EmbeddingsOf(texts) == [k \in 1..Len(texts) |-> texts[k]]

\* indexer.ts:64-72, the navigationStep row created for the i-th step
NavStepRow(sid, steps, i) ==
    [crawlSessionId |-> sid, n |-> i, url |-> steps[i].url, scraped |-> steps[i].scraped]

\* indexer.ts:101-107, the page row created for a crawled page by call c
PageRow(c, pg) == [call |-> c, url |-> pg.url]

\* indexer.ts:124-128, the two nested loops: the places (page i, its chunk
\* j) in the order they are visited, from page i on
RECURSIVE ChunkLoopFrom(_, _)
ChunkLoopFrom(ps, i) ==
    IF i > Len(ps)
    THEN <<>>
    ELSE [j \in 1..ps[i].nchunks |-> [i |-> i, j |-> j]] \o ChunkLoopFrom(ps, i + 1)

ChunkLoop(ps) == ChunkLoopFrom(ps, 1)

\* indexer.ts:130-132, chunkedPages.slice(0, i).reduce(sum of chunks.length)
RECURSIVE ChunksBefore(_, _)
ChunksBefore(ps, i) ==
    IF i <= 1 THEN 0 ELSE ps[i - 1].nchunks + ChunksBefore(ps, i - 1)

\* the index without the chunks of the earlier pages
EmbeddingIndexWithinPage(ps, i, j) == j

\* indexer.ts:130-132, embeddingIndex (positions counted from 1)
EmbeddingIndex(ps, i, j) == ChunksBefore(ps, i) + j

\* the chunk row created without its embedding
ChunkRowWithoutEmbedding(c, ps, embs, at) ==
    [call |-> c, pageId |-> PageRow(c, ps[at.i]), url |-> ps[at.i].url, j |-> at.j,
     embedding |-> NULL]

\* indexer.ts:125-142, the chunk row created by call c for chunk at.j of
\* page at.i: pageId is the id of storedPages[i], the text and the source
\* url are those of chunkedPages[i].chunks[j], the embedding is
\* embeddings[embeddingIndex]
ChunkRow(c, ps, embs, at) ==
    [call |-> c, pageId |-> PageRow(c, ps[at.i]), url |-> ps[at.i].url, j |-> at.j,
     embedding |-> embs[EmbeddingIndex(ps, at.i, at.j)]]

\* the rows of the chunk table once call c has stored its whole crawl
NewCorpusChunks(c, r) ==
    LET loop == ChunkLoop(r.pages)
    IN  { ChunkRow(c, r.pages, EmbeddingsOf(AllChunks(r.pages)), loop[k]) :
            k \in 1..Len(loop) }

\* indexer.ts:200-205 without completedAt
FailedRowForgetsCompletedAt(row) == [row EXCEPT !.status = "failed"]

\* indexer.ts:44-50 and 200-205, the data of the update to failed
FailedRow(row) == [row EXCEPT !.status = "failed", !.completedAt = TRUE]

\* indexer.ts:151-157, the data of the update to completed
CompletedRow(row) == [row EXCEPT !.status = "completed", !.completedAt = TRUE]

\* the zero-pages test never taken
NoPagesCrawledNever(r) == FALSE

\* indexer.ts:42
NoPagesCrawled(r) == Len(r.pages) = 0

\* A fresh store, or the store an earlier reindexContent call (call 0) left
\* after it indexed the seed page and the linked page, one chunk each.
EarlierResult ==
    [steps |-> << [url |-> SeedPage, scraped |-> TRUE],
                  [url |-> LinkedPage, scraped |-> TRUE] >>,
     pages |-> << [url |-> SeedPage, nchunks |-> 1],
                  [url |-> LinkedPage, nchunks |-> 1] >>]

InitStore ==
    \/ /\ sessions = <<>>
       /\ dbNavSteps = {}
       /\ dbPages = {}
       /\ dbChunks = {}
       /\ adminLog = <<>>
    \/ /\ sessions = << [status |-> "completed", completedAt |-> TRUE, pagesScraped |-> 2] >>
       /\ dbNavSteps = { NavStepRow(1, EarlierResult.steps, i) : i \in 1..2 }
       /\ dbPages = { PageRow(0, EarlierResult.pages[i]) : i \in 1..2 }
       /\ dbChunks = NewCorpusChunks(0, EarlierResult)
       /\ adminLog = << "success" >>

InitReindex ==
    /\ rpc = "idle"
    /\ calls = 0
    /\ crawlSession = 0
    /\ crawlResult = NoResult
    /\ embeddings = <<>>
    /\ chunksStored = 0
    /\ lastOutcome = "none"
    /\ corpusAtStart = [pages |-> {}, chunks |-> {}]
    /\ zeroPages = FALSE
    /\ embedFailed = FALSE
    /\ markRejected = FALSE

InitSearch ==
    /\ spc = "idle"
    /\ snapshot = {}
    /\ snapMidReindex = FALSE

\* search.ts:48-101 has no await: once findMany has delivered its rows,
\* searchChunks runs to its return before any other continuation of the
\* process runs
JsThreadFree == spc # "read"

\* indexer.ts:225-254, getReindexStatus: the status of the newest admin log
\* entry of action 'reindex', null when there is none
lastReindexStatus(log) == IF log = <<>> THEN "null" ELSE log[Len(log)]

\* indexer.ts:195-199: where the catch block starts
CatchPc(cs) == IF cs # 0 THEN "catchMark" ELSE "catchLog"

\* indexer.ts:18-35: the call starts and creates its crawl session
CreateSession ==
    /\ rpc = "idle"
    /\ JsThreadFree
    /\ calls < MaxReindexCalls
    /\ calls' = calls + 1
    /\ corpusAtStart' = [pages |-> dbPages, chunks |-> dbChunks]
    /\ zeroPages' = FALSE
    /\ embedFailed' = FALSE
    /\ markRejected' = FALSE
    /\ crawlResult' = NoResult
    /\ embeddings' = <<>>
    /\ chunksStored' = 0
    /\ \E ok \in BOOLEAN :
         IF ok
         THEN /\ sessions' = Append(sessions, [status |-> "in_progress",
                                               completedAt |-> FALSE,
                                               pagesScraped |-> 0])
              /\ crawlSession' = Len(sessions) + 1
              /\ rpc' = "crawl"
         ELSE /\ crawlSession' = 0
              /\ rpc' = CatchPc(0)
              /\ UNCHANGED sessions
    /\ UNCHANGED << dbNavSteps, dbPages, dbChunks, adminLog, lastOutcome >>
    /\ UNCHANGED << crawlVars, searchVars, restVars >>

\* indexer.ts:37-42: crawlBenefitsPages returns its result or throws
Crawl ==
    /\ rpc = "crawl"
    /\ JsThreadFree
    /\ \E ok \in BOOLEAN :
         IF ok
         THEN \E r \in CrawlResults :
                /\ crawlResult' = r
                /\ zeroPages' = (Len(r.pages) = 0)
                /\ rpc' = IF NoPagesCrawled(r) THEN "zeroPages" ELSE "saveSteps"
         ELSE /\ rpc' = CatchPc(crawlSession)
              /\ UNCHANGED << crawlResult, zeroPages >>
    /\ UNCHANGED << calls, crawlSession, embeddings, chunksStored, lastOutcome,
                    corpusAtStart, embedFailed, markRejected >>
    /\ UNCHANGED << crawlVars, storeVars, searchVars, restVars >>

\* indexer.ts:42-59: no page was crawled; the session is marked failed and
\* the call returns zero counts
MarkZeroPagesFailed ==
    /\ rpc = "zeroPages"
    /\ JsThreadFree
    /\ \E ok \in BOOLEAN :
         IF ok
         THEN /\ sessions' = [sessions EXCEPT ![crawlSession] = FailedRow(@)]
              /\ rpc' = "idle"
              /\ lastOutcome' = "returned"
         ELSE /\ rpc' = CatchPc(crawlSession)
              /\ UNCHANGED << sessions, lastOutcome >>
    /\ UNCHANGED << dbNavSteps, dbPages, dbChunks, adminLog >>
    /\ UNCHANGED << calls, crawlSession, crawlResult, embeddings, chunksStored,
                    corpusAtStart, zeroPages, embedFailed, markRejected >>
    /\ UNCHANGED << crawlVars, searchVars, restVars >>

\* indexer.ts:61-74: navigationStep.createMany
SaveSteps ==
    /\ rpc = "saveSteps"
    /\ JsThreadFree
    /\ \E ok \in BOOLEAN :
         IF ok
         THEN /\ dbNavSteps' = dbNavSteps \cup
                    { NavStepRow(crawlSession, crawlResult.steps, i) :
                      i \in 1..Len(crawlResult.steps) }
              /\ rpc' = "updateCount"
         ELSE /\ rpc' = CatchPc(crawlSession)
              /\ UNCHANGED dbNavSteps
    /\ UNCHANGED << sessions, dbPages, dbChunks, adminLog >>
    /\ UNCHANGED << calls, crawlSession, crawlResult, embeddings, chunksStored,
                    lastOutcome, corpusAtStart, zeroPages, embedFailed, markRejected >>
    /\ UNCHANGED << crawlVars, searchVars, restVars >>

\* indexer.ts:76-89: pagesScraped is written; chunkPages is pure
UpdatePagesScraped ==
    /\ rpc = "updateCount"
    /\ JsThreadFree
    /\ \E ok \in BOOLEAN :
         IF ok
         THEN /\ sessions' = [sessions EXCEPT
                                ![crawlSession].pagesScraped = Len(crawlResult.pages)]
              /\ rpc' = "deleteChunks"
         ELSE /\ rpc' = CatchPc(crawlSession)
              /\ UNCHANGED sessions
    /\ UNCHANGED << dbNavSteps, dbPages, dbChunks, adminLog >>
    /\ UNCHANGED << calls, crawlSession, crawlResult, embeddings, chunksStored,
                    lastOutcome, corpusAtStart, zeroPages, embedFailed, markRejected >>
    /\ UNCHANGED << crawlVars, searchVars, restVars >>

\* indexer.ts:93: chunk.deleteMany({})
DeleteChunks ==
    /\ rpc = "deleteChunks"
    /\ JsThreadFree
    /\ \E ok \in BOOLEAN :
         IF ok
         THEN /\ dbChunks' = {}
              /\ rpc' = "deletePages"
         ELSE /\ rpc' = CatchPc(crawlSession)
              /\ UNCHANGED dbChunks
    /\ UNCHANGED << sessions, dbNavSteps, dbPages, adminLog >>
    /\ UNCHANGED << calls, crawlSession, crawlResult, embeddings, chunksStored,
                    lastOutcome, corpusAtStart, zeroPages, embedFailed, markRejected >>
    /\ UNCHANGED << crawlVars, searchVars, restVars >>

\* indexer.ts:94: page.deleteMany({})
DeletePages ==
    /\ rpc = "deletePages"
    /\ JsThreadFree
    /\ \E ok \in BOOLEAN :
         IF ok
         THEN /\ dbPages' = {}
              /\ rpc' = "storePages"
         ELSE /\ rpc' = CatchPc(crawlSession)
              /\ UNCHANGED dbPages
    /\ UNCHANGED << sessions, dbNavSteps, dbChunks, adminLog >>
    /\ UNCHANGED << calls, crawlSession, crawlResult, embeddings, chunksStored,
                    lastOutcome, corpusAtStart, zeroPages, embedFailed, markRejected >>
    /\ UNCHANGED << crawlVars, searchVars, restVars >>

\* indexer.ts:97-110: Promise.all of one page.create per crawled page.  All
\* are created, or one rejects and the call throws with the others created
\* or not.
StorePages ==
    /\ rpc = "storePages"
    /\ JsThreadFree
    /\ \E created \in SUBSET (1..Len(crawlResult.pages)) :
         /\ dbPages' = dbPages \cup { PageRow(calls, crawlResult.pages[i]) : i \in created }
         /\ rpc' = IF created = 1..Len(crawlResult.pages)
                   THEN "embed"
                   ELSE CatchPc(crawlSession)
    /\ UNCHANGED << sessions, dbNavSteps, dbChunks, adminLog >>
    /\ UNCHANGED << calls, crawlSession, crawlResult, embeddings, chunksStored,
                    lastOutcome, corpusAtStart, zeroPages, embedFailed, markRejected >>
    /\ UNCHANGED << crawlVars, searchVars, restVars >>

\* indexer.ts:112-118 with generateEmbeddingsBatched (part_006:52-74): the
\* vectors of all chunk texts, or the error of a batch.  With no text no
\* batch is sent and nothing can fail.
GenerateEmbeddings ==
    /\ rpc = "embed"
    /\ JsThreadFree
    /\ LET texts == AllChunks(crawlResult.pages) IN
       \E ok \in IF Len(texts) = 0 THEN { TRUE } ELSE BOOLEAN :
         IF ok
         THEN /\ embeddings' = EmbeddingsOf(texts)
              /\ rpc' = IF Len(texts) = 0 THEN "markCompleted" ELSE "storeChunks"
              /\ UNCHANGED embedFailed
         ELSE /\ embedFailed' = TRUE
              /\ rpc' = CatchPc(crawlSession)
              /\ UNCHANGED embeddings
    /\ UNCHANGED << calls, crawlSession, crawlResult, chunksStored, lastOutcome,
                    corpusAtStart, zeroPages, markRejected >>
    /\ UNCHANGED << crawlVars, storeVars, searchVars, restVars >>

\* indexer.ts:120-147: one chunk.create of the storing loop
StoreChunk ==
    /\ rpc = "storeChunks"
    /\ JsThreadFree
    /\ LET loop == ChunkLoop(crawlResult.pages) IN
       \E ok \in BOOLEAN :
         IF ok
         THEN /\ dbChunks' = dbChunks \cup
                    { ChunkRow(calls, crawlResult.pages, embeddings,
                               loop[chunksStored + 1]) }
              /\ chunksStored' = chunksStored + 1
              /\ rpc' = IF chunksStored + 1 = Len(loop)
                        THEN "markCompleted"
                        ELSE "storeChunks"
         ELSE /\ rpc' = CatchPc(crawlSession)
              /\ UNCHANGED << dbChunks, chunksStored >>
    /\ UNCHANGED << sessions, dbNavSteps, dbPages, adminLog >>
    /\ UNCHANGED << calls, crawlSession, crawlResult, embeddings, lastOutcome,
                    corpusAtStart, zeroPages, embedFailed, markRejected >>
    /\ UNCHANGED << crawlVars, searchVars, restVars >>

\* indexer.ts:149-158
MarkCompleted ==
    /\ rpc = "markCompleted"
    /\ JsThreadFree
    /\ \E ok \in BOOLEAN :
         IF ok
         THEN /\ sessions' = [sessions EXCEPT ![crawlSession] = CompletedRow(@)]
              /\ rpc' = "logSuccess"
         ELSE /\ rpc' = CatchPc(crawlSession)
              /\ UNCHANGED sessions
    /\ UNCHANGED << dbNavSteps, dbPages, dbChunks, adminLog >>
    /\ UNCHANGED << calls, crawlSession, crawlResult, embeddings, chunksStored,
                    lastOutcome, corpusAtStart, zeroPages, embedFailed, markRejected >>
    /\ UNCHANGED << crawlVars, searchVars, restVars >>

\* indexer.ts:160-194: the success row of the admin log, then the return
LogSuccess ==
    /\ rpc = "logSuccess"
    /\ JsThreadFree
    /\ \E ok \in BOOLEAN :
         IF ok
         THEN /\ adminLog' = Append(adminLog, "success")
              /\ rpc' = "idle"
              /\ lastOutcome' = "returned"
         ELSE /\ rpc' = CatchPc(crawlSession)
              /\ UNCHANGED << adminLog, lastOutcome >>
    /\ UNCHANGED << sessions, dbNavSteps, dbPages, dbChunks >>
    /\ UNCHANGED << calls, crawlSession, crawlResult, embeddings, chunksStored,
                    corpusAtStart, zeroPages, embedFailed, markRejected >>
    /\ UNCHANGED << crawlVars, searchVars, restVars >>

\* indexer.ts:195-207: the catch block marks the session failed; an error
\* of this update is logged and dropped (.catch(console.error))
CatchMarkFailed ==
    /\ rpc = "catchMark"
    /\ JsThreadFree
    /\ \E ok \in BOOLEAN :
         IF ok
         THEN /\ sessions' = [sessions EXCEPT ![crawlSession] = FailedRow(@)]
              /\ UNCHANGED markRejected
         ELSE /\ markRejected' = TRUE
              /\ UNCHANGED sessions
    /\ rpc' = "catchLog"
    /\ UNCHANGED << dbNavSteps, dbPages, dbChunks, adminLog >>
    /\ UNCHANGED << calls, crawlSession, crawlResult, embeddings, chunksStored,
                    lastOutcome, corpusAtStart, zeroPages, embedFailed >>
    /\ UNCHANGED << crawlVars, searchVars, restVars >>

\* indexer.ts:209-222: the error row of the admin log, then the error is
\* thrown to the caller (the log's own error when the log write rejects)
CatchLogAndThrow ==
    /\ rpc = "catchLog"
    /\ JsThreadFree
    /\ \E ok \in BOOLEAN :
         adminLog' = IF ok THEN Append(adminLog, "error") ELSE adminLog
    /\ rpc' = "idle"
    /\ lastOutcome' = "threw"
    /\ UNCHANGED << sessions, dbNavSteps, dbPages, dbChunks >>
    /\ UNCHANGED << calls, crawlSession, crawlResult, embeddings, chunksStored,
                    corpusAtStart, zeroPages, embedFailed, markRejected >>
    /\ UNCHANGED << crawlVars, searchVars, restVars >>

\* route.ts:25-56: what POST answers when reindexContent has returned, and
\* when it has thrown
ReindexResponse(outcome) ==
    IF outcome = "returned"
    THEN [code |-> 200, status |-> "success"]
    ELSE [code |-> 500, status |-> "error"]

\* a reindexContent call is between its first and its last store write
Reindexing == rpc # "idle"

(***************************************************************************)
(* searchChunks                                                            *)
(***************************************************************************)
\* search.ts:42-46: chunk.findMany of the chunks that have an embedding
SearchFindMany ==
    /\ spc = "idle"
    /\ snapshot' = dbChunks
    /\ snapMidReindex' = Reindexing
    /\ spc' = "read"
    /\ UNCHANGED << crawlVars, storeVars, reindexVars, restVars >>

\* search.ts:50-101: the similarities are computed and the call returns
SearchReturn ==
    /\ spc = "read"
    /\ snapshot' = {}
    /\ snapMidReindex' = FALSE
    /\ spc' = "idle"
    /\ UNCHANGED << crawlVars, storeVars, reindexVars, restVars >>

NextReindex ==
    \/ CreateSession
    \/ Crawl
    \/ MarkZeroPagesFailed
    \/ SaveSteps
    \/ UpdatePagesScraped
    \/ DeleteChunks
    \/ DeletePages
    \/ StorePages
    \/ GenerateEmbeddings
    \/ StoreChunk
    \/ MarkCompleted
    \/ LogSuccess
    \/ CatchMarkFailed
    \/ CatchLogAndThrow
    \/ SearchFindMany
    \/ SearchReturn

\* reindexContent and searchChunks against the store; no crawl of the
\* crawler's own state machine runs (Crawl stands for the whole call)
InitIndexing ==
    /\ AMEX_BENEFITS_URL = U(1, 0, FALSE, FALSE)
    /\ MAX_PAGES_TO_CRAWL = MaxPagesCfg
    /\ IdleCrawl
    /\ InitStore
    /\ InitReindex
    /\ InitSearch
    /\ IdleRest

SpecReindex == InitIndexing /\ [][NextReindex]_vars

(***************************************************************************)
(* POST /api/admin/reindex called twice in one process: each request runs  *)
(* reindexContent, whose crawl uses the module-level browser of            *)
(* scraper.ts.  The crawl is followed through its uses of the browser; the *)
(* store writes after the crawl are one step.                              *)
(***************************************************************************)
\* the requests of the scenario
Requests == { 1, 2 }

NoRequest ==
    [pc |-> "idle", status |-> 0, session |-> 0, browser |-> 0, context |-> 0,
     visits |-> 0, inCatch |-> FALSE, arrivedDuring |-> FALSE]

\* the request is between its arrival and its response
Running(r) == requests[r].pc \notin { "idle", "responded" }

\* the crawl of the request is in its loop (scraper.ts:400-504)
Visiting(r) == requests[r].pc \in { "getContext", "launching", "newContext", "visit" }

InitRoute ==
    /\ requests = [r \in Requests |-> NoRequest]
    /\ browserInstance = 0
    /\ browserContext = 0
    /\ browsers = <<>>
    /\ contexts = <<>>

\* route.ts:8-26: the token is checked; with the right token reindexContent
\* is called, whatever other request is running
POST(r) ==
    /\ requests[r].pc = "idle"
    /\ \E authorized \in BOOLEAN :
         requests' = [requests EXCEPT
            ![r].pc = IF authorized THEN "createSession" ELSE "responded",
            ![r].status = IF authorized THEN 0 ELSE 401,
            ![r].arrivedDuring = authorized /\ \E o \in Requests \ { r } : Running(o)]
    /\ UNCHANGED << browserInstance, browserContext, browsers, contexts >>
    /\ UNCHANGED << crawlVars, storeVars, reindexVars, searchVars,
                    chatVars, embedVars, chunkVars, urlVars, simVars, adminVars >>

\* indexer.ts:18-39: the crawl session row is created and the crawl starts
ReindexCreateSession(r) ==
    /\ requests[r].pc = "createSession"
    /\ sessions' = Append(sessions, [status |-> "in_progress", completedAt |-> FALSE,
                                     pagesScraped |-> 0])
    /\ requests' = [requests EXCEPT ![r].session = Len(sessions) + 1,
                                    ![r].pc = "getContext"]
    /\ UNCHANGED << browserInstance, browserContext, browsers, contexts >>
    /\ UNCHANGED << dbNavSteps, dbPages, dbChunks, adminLog >>
    /\ UNCHANGED << crawlVars, reindexVars, searchVars,
                    chatVars, embedVars, chunkVars, urlVars, simVars, adminVars >>

\* scraper.ts:71-82 with getBrowser (44-66), up to their first await: the
\* handles are read; a handle that is set is used as it is
getBrowserContext(r) ==
    /\ requests[r].pc = "getContext"
    /\ requests' =
         IF browserContext # 0
         THEN [requests EXCEPT ![r].context = browserContext, ![r].pc = "visit"]
         ELSE IF browserInstance # 0
              THEN [requests EXCEPT ![r].browser = browserInstance, ![r].pc = "newContext"]
              ELSE [requests EXCEPT ![r].pc = "launching"]
    /\ UNCHANGED << browserInstance, browserContext, browsers, contexts >>
    /\ UNCHANGED << crawlVars, storeVars, reindexVars, searchVars,
                    chatVars, embedVars, chunkVars, urlVars, simVars, adminVars >>

\* scraper.ts:47-65: chromium.launch has resolved; the handle is assigned
getBrowser(r) ==
    /\ requests[r].pc = "launching"
    /\ browsers' = Append(browsers, "open")
    /\ browserInstance' = Len(browsers) + 1
    /\ requests' = [requests EXCEPT ![r].browser = Len(browsers) + 1,
                                    ![r].pc = "newContext"]
    /\ UNCHANGED << browserContext, contexts >>
    /\ UNCHANGED << crawlVars, storeVars, reindexVars, searchVars,
                    chatVars, embedVars, chunkVars, urlVars, simVars, adminVars >>

\* scraper.ts:76-80: browser.newContext has resolved and the handle is
\* assigned; on a closed browser it rejects, and the attempt of scrapePage
\* fails without a context
newContext(r) ==
    /\ requests[r].pc = "newContext"
    /\ IF browsers[requests[r].browser] = "open"
       THEN /\ contexts' = Append(contexts, [browser |-> requests[r].browser,
                                             state |-> "open"])
            /\ browserContext' = Len(contexts) + 1
            /\ requests' = [requests EXCEPT ![r].context = Len(contexts) + 1,
                                            ![r].pc = "visit"]
       ELSE /\ requests' = [requests EXCEPT ![r].context = 0, ![r].pc = "visit"]
            /\ UNCHANGED << browserContext, contexts >>
    /\ UNCHANGED << browserInstance, browsers >>
    /\ UNCHANGED << crawlVars, storeVars, reindexVars, searchVars,
                    chatVars, embedVars, chunkVars, urlVars, simVars, adminVars >>

\* the context the request holds is open, and so is its browser
ContextUsable(r) ==
    /\ requests[r].context # 0
    /\ contexts[requests[r].context].state = "open"
    /\ browsers[contexts[requests[r].context].browser] = "open"

\* scraper.ts:188-293 and 400-504: a page is opened on the context and
\* worked on; the page comes out scraped or not, or scrapePage rejects
\* (l.281) and the catch block of the crawl takes over (l.515).  Then the
\* loop goes on or is left.
VisitPage(r) ==
    /\ requests[r].pc = "visit"
    /\ \E outcome \in IF ContextUsable(r)
                      THEN { "scraped", "failed", "threw" }
                      ELSE { "failed", "threw" } :
       \E more \in IF requests[r].visits + 1 < MaxVisits /\ outcome # "threw"
                   THEN BOOLEAN
                   ELSE { FALSE } :
         requests' = [requests EXCEPT
            ![r].visits = @ + 1,
            ![r].inCatch = (outcome = "threw"),
            ![r].pc = IF more THEN "getContext" ELSE "closeBrowser"]
    /\ UNCHANGED << browserInstance, browserContext, browsers, contexts >>
    /\ UNCHANGED << crawlVars, storeVars, reindexVars, searchVars,
                    chatVars, embedVars, chunkVars, urlVars, simVars, adminVars >>

\* scraper.ts:507-518: how the crawl ends once closeBrowser has resolved
CloseDone(r) == IF requests[r].inCatch THEN "crawlThrew" ELSE "crawlReturned"

\* scraper.ts:515-518: closeBrowser rejected.  In the try block the catch
\* block calls it again; in the catch block the crawl throws.
CloseRejected(r) ==
    IF requests[r].inCatch
    THEN [requests EXCEPT ![r].pc = "crawlThrew"]
    ELSE [requests EXCEPT ![r].inCatch = TRUE, ![r].pc = "closeBrowser"]

\* Browser.close(): the browser and its contexts are closed
CloseInstance(b) ==
    /\ browsers' = [browsers EXCEPT ![b] = "closed"]
    /\ contexts' = [c \in DOMAIN contexts |->
                       IF contexts[c].browser = b
                       THEN [contexts[c] EXCEPT !.state = "closed"]
                       ELSE contexts[c]]

\* scraper.ts:105-106: browserInstance.close() is called on the handle
closeBrowserInstance(r, ok) ==
    IF browserInstance = 0
    THEN /\ requests' = [requests EXCEPT ![r].pc = CloseDone(r)]
         /\ UNCHANGED << browsers, contexts >>
    ELSE IF ok
         THEN /\ CloseInstance(browserInstance)
              /\ requests' = [requests EXCEPT ![r].pc = "instanceClosing"]
         ELSE /\ requests' = CloseRejected(r)
              /\ UNCHANGED << browsers, contexts >>

\* scraper.ts:101-106: closeBrowser up to its first await
closeBrowser(r) ==
    /\ requests[r].pc = "closeBrowser"
    /\ \E ok \in BOOLEAN :
         IF browserContext # 0
         THEN IF ok
              THEN /\ contexts' = [contexts EXCEPT ![browserContext].state = "closed"]
                   /\ requests' = [requests EXCEPT ![r].pc = "contextClosing"]
                   /\ UNCHANGED browsers
              ELSE /\ requests' = CloseRejected(r)
                   /\ UNCHANGED << browsers, contexts >>
         ELSE closeBrowserInstance(r, ok)
    /\ UNCHANGED << browserInstance, browserContext >>
    /\ UNCHANGED << crawlVars, storeVars, reindexVars, searchVars,
                    chatVars, embedVars, chunkVars, urlVars, simVars, adminVars >>

\* scraper.ts:103-106: browserContext.close() has resolved; the handle is
\* set to null and the browser is closed
ContextClosed(r) ==
    /\ requests[r].pc = "contextClosing"
    /\ browserContext' = 0
    /\ \E ok \in BOOLEAN : closeBrowserInstance(r, ok)
    /\ UNCHANGED browserInstance
    /\ UNCHANGED << crawlVars, storeVars, reindexVars, searchVars,
                    chatVars, embedVars, chunkVars, urlVars, simVars, adminVars >>

\* scraper.ts:106-110: browserInstance.close() has resolved; the handle is
\* set to null and closeBrowser returns
InstanceClosed(r) ==
    /\ requests[r].pc = "instanceClosing"
    /\ browserInstance' = 0
    /\ requests' = [requests EXCEPT ![r].pc = CloseDone(r)]
    /\ UNCHANGED << browserContext, browsers, contexts >>
    /\ UNCHANGED << crawlVars, storeVars, reindexVars, searchVars,
                    chatVars, embedVars, chunkVars, urlVars, simVars, adminVars >>

\* indexer.ts:40-194 and route.ts:28-44: the crawl returned; the result is
\* stored, the session is completed and the request is answered 200
ReindexStored(r) ==
    /\ requests[r].pc = "crawlReturned"
    /\ sessions' = [sessions EXCEPT ![requests[r].session] = CompletedRow(@)]
    /\ requests' = [requests EXCEPT ![r].pc = "responded", ![r].status = 200]
    /\ UNCHANGED << browserInstance, browserContext, browsers, contexts >>
    /\ UNCHANGED << dbNavSteps, dbPages, dbChunks, adminLog >>
    /\ UNCHANGED << crawlVars, reindexVars, searchVars,
                    chatVars, embedVars, chunkVars, urlVars, simVars, adminVars >>

\* indexer.ts:195-222 and route.ts:45-56: the crawl threw; the session is
\* marked failed and the request is answered 500
ReindexFailed(r) ==
    /\ requests[r].pc = "crawlThrew"
    /\ sessions' = [sessions EXCEPT ![requests[r].session] = FailedRow(@)]
    /\ requests' = [requests EXCEPT ![r].pc = "responded", ![r].status = 500]
    /\ UNCHANGED << browserInstance, browserContext, browsers, contexts >>
    /\ UNCHANGED << dbNavSteps, dbPages, dbChunks, adminLog >>
    /\ UNCHANGED << crawlVars, reindexVars, searchVars,
                    chatVars, embedVars, chunkVars, urlVars, simVars, adminVars >>

NextRoute ==
    \/ \E r \in Requests : POST(r)
    \/ \E r \in Requests : ReindexCreateSession(r)
    \/ \E r \in Requests : getBrowserContext(r)
    \/ \E r \in Requests : getBrowser(r)
    \/ \E r \in Requests : newContext(r)
    \/ \E r \in Requests : VisitPage(r)
    \/ \E r \in Requests : closeBrowser(r)
    \/ \E r \in Requests : ContextClosed(r)
    \/ \E r \in Requests : InstanceClosed(r)
    \/ \E r \in Requests : ReindexStored(r)
    \/ \E r \in Requests : ReindexFailed(r)

\* the configuration of the crawler, as the other parts see it
CrawlerConfig ==
    /\ AMEX_BENEFITS_URL = U(1, 0, FALSE, FALSE)
    /\ MAX_PAGES_TO_CRAWL = MaxPagesCfg

\* a store nothing was written to
FreshStore ==
    /\ sessions = <<>>
    /\ dbNavSteps = {}
    /\ dbPages = {}
    /\ dbChunks = {}
    /\ adminLog = <<>>

InitRequests ==
    /\ CrawlerConfig
    /\ IdleCrawl
    /\ FreshStore
    /\ InitReindex
    /\ InitSearch
    /\ InitRoute
    /\ IdleChat
    /\ IdleEmbed
    /\ IdleChunk
    /\ IdleUrl
    /\ IdleSim
    /\ IdleAdmin

SpecRoute == InitRequests /\ [][NextRoute]_vars

(***************************************************************************)
(* POST /api/chat: searchChunks, calculateAverageSearchSimilarity and      *)
(* generateResponse with extractCitations.  A similarity is a number of    *)
(* hundredths; a confidence is the fraction num/den of such numbers, so    *)
(* that the average is exact.  A generated text is the list of its [N]     *)
(* markers, each the digits between the brackets.                          *)
(***************************************************************************)
\* the similarities a chunk may have to the query: negative, exactly zero
\* (also what a chunk with an unusable embedding gets, search.ts:52-60),
\* under the floor, over the floor
SimValues == { -10, 0, 15, 30 }

\* part_005:41, the topK of the chat route
CHAT_TOP_K == 5

\* search.ts:94, the similarity given to fallback results, in hundredths
FALLBACK_SIMILARITY == 50

\* response-generator.ts:52, the confidence floor 0.2, in hundredths
CONFIDENCE_FLOOR == 20

\* search.ts:62-69, the SearchResult of the chunk row with this id
Row(id, sim) ==
    [id |-> id, similarity |-> sim, sourceUrl |-> << "url", id >>,
     pageTitle |-> << "title", id >>, category |-> << "category", id >>]

\* all sequences over S of length at most n
RECURSIVE SeqsOver(_, _)
SeqsOver(S, n) ==
    IF n = 0
    THEN { <<>> }
    ELSE LET shorter == SeqsOver(S, n - 1)
         IN  shorter \cup
             { Append(l, x) : l \in { s \in shorter : Len(s) = n - 1 }, x \in S }

\* the chunk tables of the model: the rows in findMany's order
Corpora ==
    { [i \in 1..Len(sims) |-> Row(i, sims[i])] : sims \in SeqsOver(SimValues, MaxCorpus) }

TopKValues == (0..MaxTopK) \cup { CHAT_TOP_K }

\* the digits of the [N] markers a generated text may carry
MarkerUniverse == { << 1 >>, << 2 >>, << 3 >>, << 4 >>, << 0 >>, << 0, 1 >> }

GeneratedTexts == SeqsOver(MarkerUniverse, MaxMarkers)

\* the confidence scores a caller other than the chat route may pass
DirectConfidences ==
    { [num |-> n, den |-> 1] : n \in { 0, CONFIDENCE_FLOOR - 1, CONFIDENCE_FLOOR, 50 } }

\* the result lists such a caller may pass
DirectResults ==
    { [i \in 1..Len(sims) |-> Row(i, sims[i])] : sims \in SeqsOver({ 0, 30 }, 2) }

\* the results left in the order they came in
SortBySimilarityNot(rs) == rs

\* search.ts:73, Array.prototype.sort with (a, b) => b.similarity -
\* a.similarity: descending and stable
RECURSIVE SortBySimilarity(_)
SortBySimilarity(rs) ==
    IF rs = <<>>
    THEN <<>>
    ELSE LET n == Len(rs)
             sorted == SortBySimilarity(SubSeq(rs, 1, n - 1))
             \* the last element goes behind all that are not smaller
             k == Cardinality({ i \in 1..(n - 1) : sorted[i].similarity >= rs[n].similarity })
         IN  SubSeq(sorted, 1, k) \o << rs[n] >> \o SubSeq(sorted, k + 1, n - 1)

\* Array.prototype.slice(0, k)
TopSlice(rs, k) == SubSeq(rs, 1, IF k < Len(rs) THEN k ELSE Len(rs))

\* search.ts:86, the test of the degenerate result
Degenerate(rs) == Len(rs) = 0 \/ \A i \in 1..Len(rs) : rs[i].similarity = 0

\* search.ts:88-97, the fallback: the first topK chunks at similarity 0.5
FallbackResults(chunks, k) ==
    TopSlice([i \in 1..Len(chunks) |-> [chunks[i] EXCEPT !.similarity = FALLBACK_SIMILARITY]], k)

\* search.ts:50-101, what searchChunks returns for the rows findMany gave
RankChunks(chunks, k) ==
    LET top == TopSlice(SortBySimilarity(chunks), k)
    IN  IF Degenerate(top) THEN FallbackResults(chunks, k) ELSE top

RECURSIVE SumSimilarity(_)
SumSimilarity(rs) ==
    IF rs = <<>> THEN 0 ELSE Head(rs).similarity + SumSimilarity(Tail(rs))

\* the total that is not divided by the number of results
SumNotAveraged(rs) == [num |-> SumSimilarity(rs), den |-> 1]

\* search.ts:111-116
calculateAverageSearchSimilarity(rs) ==
    IF Len(rs) = 0
    THEN [num |-> 0, den |-> 1]
    ELSE [num |-> SumSimilarity(rs), den |-> Len(rs)]

\* the floor taken at 0.1
BelowLowerFloor(c) == c.num < 10 * c.den

\* response-generator.ts:52, confidenceScore < 0.2
BelowFloor(c) == c.num < CONFIDENCE_FLOOR * c.den

\* parseInt(digits, 10)
RECURSIVE ParseInt(_)
ParseInt(digits) ==
    IF digits = <<>>
    THEN 0
    ELSE 10 * ParseInt(SubSeq(digits, 1, Len(digits) - 1)) + digits[Len(digits)]

\* response-generator.ts:120-128: the numbers of the markers, each once, in
\* the order of their first occurrence (a Set iterates in insertion order)
RECURSIVE CitedNumbers(_)
CitedNumbers(text) ==
    IF text = <<>>
    THEN <<>>
    ELSE LET before == CitedNumbers(SubSeq(text, 1, Len(text) - 1))
             num == ParseInt(text[Len(text)])
         IN  IF \E i \in 1..Len(before) : before[i] = num
             THEN before
             ELSE Append(before, num)

\* response-generator.ts:132-133
InRange(num, results) == num - 1 >= 0 /\ num - 1 < Len(results)

\* response-generator.ts:134-140
Citation(num, results) ==
    [number |-> num, text |-> results[num].pageTitle, url |-> results[num].sourceUrl,
     category |-> results[num].category]

\* response-generator.ts:131-142
RECURSIVE MapCitations(_, _)
MapCitations(nums, results) ==
    IF nums = <<>>
    THEN <<>>
    ELSE IF InRange(Head(nums), results)
         THEN << Citation(Head(nums), results) >> \o MapCitations(Tail(nums), results)
         ELSE MapCitations(Tail(nums), results)

\* the citations left in the order of their first occurrence
SortCitationsNot(cs) == cs

\* response-generator.ts:144, sort by (a, b) => a.number - b.number
RECURSIVE SortCitations(_)
SortCitations(cs) ==
    IF cs = <<>>
    THEN <<>>
    ELSE LET n == Len(cs)
             sorted == SortCitations(SubSeq(cs, 1, n - 1))
             k == Cardinality({ i \in 1..(n - 1) : sorted[i].number <= cs[n].number })
         IN  SubSeq(sorted, 1, k) \o << cs[n] >> \o SubSeq(sorted, k + 1, n - 1)

\* response-generator.ts:117-145
extractCitations(responseText, results) ==
    SortCitations(MapCitations(CitedNumbers(responseText), results))

NoResponse ==
    [message |-> "none", citations |-> <<>>, confidence |-> [num |-> 0, den |-> 1]]

\* response-generator.ts:54-60 and 64-70, the two refusals
Refusal(why) == [message |-> why, citations |-> <<>>, confidence |-> [num |-> 0, den |-> 1]]

RefusalMessages == { "refusal: low confidence", "refusal: no results" }

\* The chat route is called with a message and a chunk table, or
\* generateResponse is called by another caller with results and a
\* confidence score of its own.
InitChat ==
    /\ rawResponse = <<>>
    /\ response = NoResponse
    /\ llmCalls = 0
    /\ \/ /\ chatCaller = "route"
          /\ chpc = "start"
          /\ query \in { "blank", "text" }
          /\ corpus \in Corpora
          /\ topK \in TopKValues
          /\ searchResults = <<>>
          /\ confidence = [num |-> 0, den |-> 1]
       \/ /\ chatCaller = "direct"
          /\ chpc = "scored"
          /\ query = "text"
          /\ corpus = <<>>
          /\ topK = 0
          /\ searchResults \in DirectResults
          /\ confidence \in DirectConfidences

\* search.ts:23-106: a blank query returns no result; else the query is
\* embedded, the chunks are read and ranked, or one of the calls throws
searchChunks ==
    /\ chpc = "start"
    /\ \E ok \in IF query = "blank" THEN { TRUE } ELSE BOOLEAN :
         IF ok
         THEN /\ searchResults' = IF query = "blank" THEN <<>> ELSE RankChunks(corpus, topK)
              /\ chpc' = "searched"
         ELSE /\ chpc' = "error"
              /\ UNCHANGED searchResults
    /\ UNCHANGED << chatCaller, query, corpus, topK, confidence, rawResponse, response, llmCalls >>
    /\ UNCHANGED << crawlVars, storeVars, reindexVars, searchVars,
                    routeVars, embedVars, chunkVars, urlVars, simVars, adminVars >>

\* part_005:44
ScoreConfidence ==
    /\ chpc = "searched"
    /\ confidence' = calculateAverageSearchSimilarity(searchResults)
    /\ chpc' = "scored"
    /\ UNCHANGED << chatCaller, query, corpus, topK, searchResults, rawResponse, response, llmCalls >>
    /\ UNCHANGED << crawlVars, storeVars, reindexVars, searchVars,
                    routeVars, embedVars, chunkVars, urlVars, simVars, adminVars >>

\* response-generator.ts:45-112
generateResponse ==
    /\ chpc = "scored"
    /\ IF BelowFloor(confidence)
       THEN /\ response' = Refusal("refusal: low confidence")
            /\ chpc' = "done"
            /\ UNCHANGED << rawResponse, llmCalls >>
       ELSE IF Len(searchResults) = 0
            THEN /\ response' = Refusal("refusal: no results")
                 /\ chpc' = "done"
                 /\ UNCHANGED << rawResponse, llmCalls >>
            ELSE /\ llmCalls' = llmCalls + 1
                 /\ \E ok \in BOOLEAN :
                      IF ok
                      THEN \E text \in GeneratedTexts :
                             /\ rawResponse' = text
                             /\ response' = [message |-> "generated",
                                             citations |-> extractCitations(text, searchResults),
                                             confidence |-> confidence]
                             /\ chpc' = "done"
                      ELSE /\ chpc' = "error"
                           /\ UNCHANGED << rawResponse, response >>
    /\ UNCHANGED << chatCaller, query, corpus, topK, searchResults, confidence >>
    /\ UNCHANGED << crawlVars, storeVars, reindexVars, searchVars,
                    routeVars, embedVars, chunkVars, urlVars, simVars, adminVars >>

NextChat ==
    \/ searchChunks
    \/ ScoreConfidence
    \/ generateResponse

InitChatCall ==
    /\ CrawlerConfig
    /\ IdleCrawl
    /\ FreshStore
    /\ InitReindex
    /\ InitSearch
    /\ IdleRoute
    /\ InitChat
    /\ IdleEmbed
    /\ IdleChunk
    /\ IdleUrl
    /\ IdleSim
    /\ IdleAdmin

SpecChat == InitChatCall /\ [][NextChat]_vars

(***************************************************************************)
(* generateEmbeddingsBatched.  A text is named by its content; the vector  *)
(* the service makes of a text is named by that text.                      *)
(***************************************************************************)
TextValues == { "a", "b" }

\* the embedding the service returns for a text
Vector(t) == [of |-> t]

\* the orders in which the service may return the n items of a batch
ResponseOrders(n) ==
    { p \in [1..n -> 1..n] : \A i, j \in 1..n : i # j => p[i] # p[j] }

\* part_006:22-29, response.data for a batch, its items in the order p;
\* an item carries the index of its text in the batch
ResponseData(batch, p) ==
    [k \in 1..Len(batch) |-> [index |-> p[k] - 1, embedding |-> Vector(batch[p[k]])]]

\* the items left in the order the service returned them
SortByIndexNot(items) == items

\* part_006:30, sort by (a, b) => a.index - b.index
RECURSIVE SortByIndex(_)
SortByIndex(items) ==
    IF items = <<>>
    THEN <<>>
    ELSE LET n == Len(items)
             sorted == SortByIndex(SubSeq(items, 1, n - 1))
             k == Cardinality({ i \in 1..(n - 1) : sorted[i].index <= items[n].index })
         IN  SubSeq(sorted, 1, k) \o << items[n] >> \o SubSeq(sorted, k + 1, n - 1)

\* part_006:14-39
generateEmbeddings(batch, p) ==
    LET data == SortByIndex(ResponseData(batch, p))
    IN  [k \in 1..Len(data) |-> data[k].embedding]

\* part_006:59, texts.slice(i, i + batchSize)
BatchAt(ts, i, size) ==
    SubSeq(ts, i + 1, IF i + size < Len(ts) THEN i + size ELSE Len(ts))

InitEmbed ==
    /\ epc = "loop"
    /\ inputTexts \in SeqsOver(TextValues, MaxTexts)
    /\ batchSize \in 1..MaxBatchSize
    /\ batchStart = 0
    /\ allEmbeddings = <<>>
    /\ embedTrace = <<>>

\* part_006:58-70: one iteration up to its delay: the batch is cut and
\* sent, its vectors are appended; the service may fail the batch
EmbedBatch ==
    /\ epc = "loop"
    /\ batchStart < Len(inputTexts)
    /\ LET batch == BatchAt(inputTexts, batchStart, batchSize) IN
       \E ok \in BOOLEAN :
         IF ok
         THEN \E p \in ResponseOrders(Len(batch)) :
                /\ allEmbeddings' = allEmbeddings \o generateEmbeddings(batch, p)
                /\ embedTrace' = Append(embedTrace,
                       [kind |-> "batch", from |-> batchStart, size |-> Len(batch),
                        inOrder |-> \A k \in 1..Len(batch) : p[k] = k])
                /\ IF batchStart + batchSize < Len(inputTexts)
                   THEN /\ epc' = "delay"
                        /\ UNCHANGED batchStart
                   ELSE /\ epc' = "loop"
                        /\ batchStart' = batchStart + batchSize
         ELSE /\ epc' = "threw"
              /\ UNCHANGED << batchStart, allEmbeddings, embedTrace >>
    /\ UNCHANGED << inputTexts, batchSize >>
    /\ UNCHANGED << crawlVars, storeVars, reindexVars, searchVars,
                    routeVars, chatVars, chunkVars, urlVars, simVars, adminVars >>

\* part_006:68-70 and 58: the delay of 1000 ms has elapsed, i += batchSize
EmbedDelay ==
    /\ epc = "delay"
    /\ embedTrace' = Append(embedTrace,
           [kind |-> "delay", from |-> batchStart, size |-> 0, inOrder |-> TRUE])
    /\ batchStart' = batchStart + batchSize
    /\ epc' = "loop"
    /\ UNCHANGED << inputTexts, batchSize, allEmbeddings >>
    /\ UNCHANGED << crawlVars, storeVars, reindexVars, searchVars,
                    routeVars, chatVars, chunkVars, urlVars, simVars, adminVars >>

\* part_006:58 and 73: the loop is left and allEmbeddings is returned
EmbedReturn ==
    /\ epc = "loop"
    /\ ~(batchStart < Len(inputTexts))
    /\ epc' = "returned"
    /\ UNCHANGED << inputTexts, batchSize, batchStart, allEmbeddings, embedTrace >>
    /\ UNCHANGED << crawlVars, storeVars, reindexVars, searchVars,
                    routeVars, chatVars, chunkVars, urlVars, simVars, adminVars >>

NextEmbed ==
    \/ EmbedBatch
    \/ EmbedDelay
    \/ EmbedReturn

InitEmbedCall ==
    /\ CrawlerConfig
    /\ IdleCrawl
    /\ FreshStore
    /\ InitReindex
    /\ InitSearch
    /\ IdleRoute
    /\ IdleChat
    /\ InitEmbed
    /\ IdleChunk
    /\ IdleUrl
    /\ IdleSim
    /\ IdleAdmin

SpecEmbed == InitEmbedCall /\ [][NextEmbed]_vars

(***************************************************************************)
(* chunkPage.  The content of a page is its number of words; a chunk is    *)
(* the offset of its first word and its number of words.                   *)
(***************************************************************************)
\* part_007:18-19
MAX_CHUNK_WORDS == 250
CHUNK_OVERLAP_WORDS == 75

\* the window moved on by its whole length
AdvanceNoOverlap(maxWords, overlapWords) == maxWords

\* the window moved on past a gap as wide as the overlap
AdvancePastGap(maxWords, overlapWords) == maxWords + overlapWords

\* part_007:62, i += maxWords - overlapWords
Advance(maxWords, overlapWords) == maxWords - overlapWords

\* part_007:56-63, the loop of createChunks from offset i
RECURSIVE ChunksFrom(_, _, _, _)
ChunksFrom(i, nwords, maxWords, overlapWords) ==
    IF i < nwords
    THEN << [start |-> i,
             words |-> IF i + maxWords < nwords THEN maxWords ELSE nwords - i] >>
         \o ChunksFrom(i + Advance(maxWords, overlapWords), nwords, maxWords, overlapWords)
    ELSE <<>>

\* part_007:52-66
createChunks(nwords, maxWords, overlapWords) == ChunksFrom(0, nwords, maxWords, overlapWords)

\* every chunk taken for substantial
isSubstantialChunkAlways(chunk) == TRUE

\* part_007:89-92
isSubstantialChunk(chunk) == chunk.words >= 20

\* part_007:113-137, the chunks of a page of nwords words
chunkPage(nwords) ==
    SelectSeq(createChunks(nwords, MAX_CHUNK_WORDS, CHUNK_OVERLAP_WORDS), isSubstantialChunk)

InitChunk ==
    /\ pageWords \in 0..MaxWords
    /\ chunkedContent = [returned |-> FALSE, chunks |-> <<>>]

\* part_007:113-137
ChunkPage ==
    /\ ~chunkedContent.returned
    /\ chunkedContent' = [returned |-> TRUE, chunks |-> chunkPage(pageWords)]
    /\ UNCHANGED pageWords
    /\ UNCHANGED << crawlVars, storeVars, reindexVars, searchVars,
                    routeVars, chatVars, embedVars, urlVars, simVars, adminVars >>

NextChunk == ChunkPage

InitChunkCall ==
    /\ CrawlerConfig
    /\ IdleCrawl
    /\ FreshStore
    /\ InitReindex
    /\ InitSearch
    /\ IdleRoute
    /\ IdleChat
    /\ IdleEmbed
    /\ InitChunk
    /\ IdleUrl
    /\ IdleSim
    /\ IdleAdmin

SpecChunk == InitChunkCall /\ [][NextChunk]_vars

(***************************************************************************)
(* normalizeUrl applied to a url and then to its own result.               *)
(***************************************************************************)
\* the addresses of LinkUniverse with up to MaxSlashes trailing slashes,
\* with and without query and fragment, and strings new URL() rejects
UrlInputs ==
    { [base |-> b, slashes |-> s, query |-> q, hash |-> h, parses |-> ok] :
        b \in 1..6, s \in 0..MaxSlashes, q \in BOOLEAN, h \in BOOLEAN, ok \in BOOLEAN }

InitUrl ==
    /\ urlInput \in UrlInputs
    /\ urlOutputs = <<>>

\* scraper.ts:305-319, called on the url and then on what it returned
NormalizeAgain ==
    /\ Len(urlOutputs) < 2
    /\ urlOutputs' = Append(urlOutputs,
                            normalizeUrl(IF urlOutputs = <<>>
                                         THEN urlInput
                                         ELSE urlOutputs[Len(urlOutputs)]))
    /\ UNCHANGED urlInput
    /\ UNCHANGED << crawlVars, storeVars, reindexVars, searchVars,
                    routeVars, chatVars, embedVars, chunkVars, simVars, adminVars >>

NextUrl == NormalizeAgain

InitUrlCall ==
    /\ CrawlerConfig
    /\ IdleCrawl
    /\ FreshStore
    /\ InitReindex
    /\ InitSearch
    /\ IdleRoute
    /\ IdleChat
    /\ IdleEmbed
    /\ IdleChunk
    /\ InitUrl
    /\ IdleSim
    /\ IdleAdmin

SpecUrl == InitUrlCall /\ [][NextUrl]_vars

(***************************************************************************)
(* searchChunks over the embedding strings of the store.  A JSON value is  *)
(* an array of items or something else; an item is a number, finite or     *)
(* not, or a string.  A stored string parses to a JSON value or does not   *)
(* parse.  Vectors are unit vectors along an axis or the zero vector, so   *)
(* that a cosine similarity is exact; it is counted in hundredths.  The    *)
(* kind of a string or vector says what it was made as; no definition of   *)
(* the program reads it.                                                   *)
(***************************************************************************)
\* part_006:9, the dimension a vector must have
EMBEDDING_DIMENSIONS == MaxDims

Num(n) == [type |-> "number", finite |-> TRUE, val |-> n]

\* what JSON.parse makes of 1e999
Infinite == [type |-> "number", finite |-> FALSE, val |-> 0]

JsonString == [type |-> "string", finite |-> FALSE, val |-> 0]

Arr(items) == [isArray |-> TRUE, items |-> items]

\* null, an object, a single number
NotArray == [isArray |-> FALSE, items |-> <<>>]

\* the vector of n entries with sign at entry i and 0 elsewhere
Axis(i, sign, n) == [k \in 1..n |-> Num(IF k = i THEN sign ELSE 0)]

\* embeddingToString (part_006:107-109) of a value, as the store holds it
Stored(kind, value) == [kind |-> kind, parses |-> TRUE, empty |-> FALSE, value |-> value]

\* the chunk.embedding strings of the model
StoredStrings ==
    { Stored("valid", Arr(Axis(1, 1, EMBEDDING_DIMENSIONS))),
      Stored("valid", Arr(Axis(2, 1, EMBEDDING_DIMENSIONS))),
      Stored("valid", Arr(Axis(1, -1, EMBEDDING_DIMENSIONS))),
      Stored("valid", Arr(Axis(1, 0, EMBEDDING_DIMENSIONS))),
      Stored("wrong dimension", Arr(Axis(1, 1, EMBEDDING_DIMENSIONS - 1))),
      Stored("wrong dimension", Arr(Axis(1, 1, EMBEDDING_DIMENSIONS + 1))),
      Stored("non-finite", Arr([Axis(2, 1, EMBEDDING_DIMENSIONS) EXCEPT ![1] = Infinite])),
      Stored("non-finite", Arr([Axis(1, 1, EMBEDDING_DIMENSIONS) EXCEPT ![2] = JsonString])),
      Stored("not an array", NotArray),
      [kind |-> "unparseable", parses |-> FALSE, empty |-> FALSE, value |-> NotArray],
      [kind |-> "unparseable", parses |-> FALSE, empty |-> TRUE, value |-> NotArray] }

\* what generateEmbedding(query) may deliver (part_006:44-47)
QueryEmbeddings ==
    { [kind |-> "valid", value |-> Arr(Axis(1, 1, EMBEDDING_DIMENSIONS))],
      [kind |-> "valid", value |-> Arr(Axis(2, -1, EMBEDDING_DIMENSIONS))],
      [kind |-> "wrong dimension", value |-> Arr(Axis(1, 1, EMBEDDING_DIMENSIONS + 1))],
      [kind |-> "non-finite",
       value |-> Arr([Axis(1, 1, EMBEDDING_DIMENSIONS) EXCEPT ![1] = Infinite])] }

\* search.ts:54, chunk.embedding || '[]'
OrEmptyArray(str) == IF str.empty THEN Stored("unparseable", Arr(<<>>)) ELSE str

\* part_006:114-121, JSON.parse, [] when it throws
stringToEmbedding(str) == IF str.parses THEN str.value ELSE Arr(<<>>)

\* part_006:126-139
validateEmbedding(embedding) ==
    /\ embedding.isArray
    /\ Len(embedding.items) = EMBEDDING_DIMENSIONS
    /\ \A i \in 1..Len(embedding.items) :
          embedding.items[i].type = "number" /\ embedding.items[i].finite

\* part_006:88-92, the sums of the loop
RECURSIVE DotProduct(_, _)
DotProduct(a, b) ==
    IF a = <<>>
    THEN 0
    ELSE Head(a).val * Head(b).val + DotProduct(Tail(a), Tail(b))

\* Math.sqrt, on the squares the model's vectors give
Sqrt(n) == CHOOSE r \in 0..n : r * r <= n /\ (r + 1) * (r + 1) > n

\* part_006:79-102, in hundredths
cosineSimilarity(a, b) ==
    IF Len(a) # Len(b)
    THEN [threw |-> TRUE, value |-> 0]
    ELSE LET magnitudeA == Sqrt(DotProduct(a, a))
             magnitudeB == Sqrt(DotProduct(b, b))
         IN  [threw |-> FALSE,
              value |-> IF magnitudeA = 0 \/ magnitudeB = 0
                        THEN 0
                        ELSE (100 * DotProduct(a, b)) \div (magnitudeA * magnitudeB)]

\* search.ts:52-60: the similarity of one chunk row; what the try block
\* throws is caught and the similarity stays 0
ChunkSimilarity(q, str) ==
    LET chunkEmbedding == stringToEmbedding(OrEmptyArray(str))
    IN  IF validateEmbedding(chunkEmbedding)
        THEN LET c == cosineSimilarity(q.items, chunkEmbedding.items)
             IN  IF c.threw THEN 0 ELSE c.value
        ELSE 0

\* search.ts:51-70, resultsWithSimilarity
ResultsWithSimilarity(q, strs) ==
    [i \in 1..Len(strs) |-> Row(i, ChunkSimilarity(q, strs[i]))]

InitSim ==
    /\ simpc = "start"
    /\ queryEmbedding \in QueryEmbeddings
    /\ storedEmbeddings \in SeqsOver(StoredStrings, MaxStored)
    /\ simTopK \in { 1, CHAT_TOP_K }
    /\ simResults = <<>>

\* search.ts:33-106 for a query that is not blank: generateEmbedding or
\* findMany throws, or the query embedding is refused (l.38-40), or the
\* rows are scored, ranked and returned
SearchStored ==
    /\ simpc = "start"
    /\ \E fault \in BOOLEAN :
         IF fault
         THEN /\ simpc' = "threw: service"
              /\ UNCHANGED simResults
         ELSE IF ~validateEmbedding(queryEmbedding.value)
              THEN /\ simpc' = "threw: invalid query embedding"
                   /\ UNCHANGED simResults
              ELSE /\ simResults' =
                        RankChunks(ResultsWithSimilarity(queryEmbedding.value,
                                                         storedEmbeddings), simTopK)
                   /\ simpc' = "returned"
    /\ UNCHANGED << queryEmbedding, storedEmbeddings, simTopK >>
    /\ UNCHANGED << crawlVars, storeVars, reindexVars, searchVars,
                    routeVars, chatVars, embedVars, chunkVars, urlVars, adminVars >>

NextSim == SearchStored

InitSimCall ==
    /\ CrawlerConfig
    /\ IdleCrawl
    /\ FreshStore
    /\ InitReindex
    /\ InitSearch
    /\ IdleRoute
    /\ IdleChat
    /\ IdleEmbed
    /\ IdleChunk
    /\ IdleUrl
    /\ InitSim
    /\ IdleAdmin

SpecSim == InitSimCall /\ [][NextSim]_vars

(***************************************************************************)
(* The endpoints under /api/admin.  A string is modelled as the list of    *)
(* its parts, a part being the text 'Bearer ' or a word that holds no      *)
(* part of that text, so that two strings are equal exactly when their     *)
(* lists are.                                                              *)
(***************************************************************************)
Bearer == "Bearer "

Words == {"s3cret", "guess"}

Str(parts) == [kind |-> "string", text |-> parts]

\* String.prototype.replace('Bearer ', ''): the first occurrence is removed
ReplaceBearer(parts) ==
    LET at == {i \in 1..Len(parts) : parts[i] = Bearer}
    IN  IF at = {}
        THEN parts
        ELSE LET first == CHOOSE i \in at : \A k \in at : i <= k
             IN  SubSeq(parts, 1, first - 1) \o SubSeq(parts, first + 1, Len(parts))

\* route.ts:12, authHeader?.replace('Bearer ', ''): undefined when the
\* header is missing (headers.get returns null)
TokenOf(authHeader) ==
    IF authHeader.kind = "string"
    THEN Str(ReplaceBearer(authHeader.text))
    ELSE Undefined

\* route.ts:14, the negation of token !== process.env.ADMIN_TOKEN
TokenAccepted(authHeader, envToken) == TokenOf(authHeader) = envToken

\* the status codes a handler answers with once the token is accepted
CodesOf(endpoint) ==
    IF endpoint = "navigation" THEN {200, 400, 404, 500} ELSE {200, 500}

\* what a handler does once the token is accepted: POST /api/admin/reindex
\* runs reindexContent whatever the answer, a GET returns data with 200
Performed(endpoint, code) == endpoint = "reindex" \/ code = 200

\* the token check and the response of a handler
Handle(endpoint) ==
    /\ adminResponse = NotAnswered
    /\ IF TokenAccepted(adminRequest.authorization, adminToken)
       THEN \E code \in CodesOf(endpoint) :
               adminResponse' = [code |-> code, performed |-> Performed(endpoint, code)]
       ELSE adminResponse' = [code |-> 401, performed |-> FALSE]
    /\ UNCHANGED << adminToken, adminRequest >>
    /\ UNCHANGED << crawlVars, storeVars, reindexVars, searchVars,
                    routeVars, chatVars, embedVars, chunkVars, urlVars, simVars >>

\* POST /api/admin/reindex
AdminReindex ==
    /\ adminRequest.endpoint = "reindex"
    /\ Handle("reindex")

\* GET /api/admin/status
AdminStatus ==
    /\ adminRequest.endpoint = "status"
    /\ Handle("status")

\* GET /api/admin/crawl-sessions
AdminCrawlSessions ==
    /\ adminRequest.endpoint = "crawl-sessions"
    /\ Handle("crawl-sessions")

\* GET /api/admin/navigation/[sessionId]
AdminNavigation ==
    /\ adminRequest.endpoint = "navigation"
    /\ Handle("navigation")

NextAdmin ==
    \/ AdminReindex
    \/ AdminStatus
    \/ AdminCrawlSessions
    \/ AdminNavigation

AuthorizationHeaders ==
    {Null} \cup {Str(parts) : parts \in SeqsOver(Words \cup {Bearer}, MaxHeaderParts)}

ConfiguredTokens ==
    {Undefined} \cup {Str(parts) : parts \in SeqsOver(Words, MaxTokenParts)}

InitAdmin ==
    /\ adminToken \in ConfiguredTokens
    /\ adminRequest \in [endpoint : {"reindex", "status", "crawl-sessions", "navigation"},
                         authorization : AuthorizationHeaders]
    /\ adminResponse = NotAnswered

InitAdminCall ==
    /\ CrawlerConfig
    /\ IdleCrawl
    /\ FreshStore
    /\ InitReindex
    /\ InitSearch
    /\ IdleRoute
    /\ IdleChat
    /\ IdleEmbed
    /\ IdleChunk
    /\ IdleUrl
    /\ IdleSim
    /\ InitAdmin

SpecAdmin == InitAdminCall /\ [][NextAdmin]_vars

\* one call of crawlBenefitsPages; the crawl does not use the store
Init == InitCrawl /\ FreshStore /\ InitReindex /\ InitSearch /\ IdleRest

Next == NextCrawl

Spec == Init /\ [][Next]_vars

\* the same call where every step that can be taken is taken in the end:
\* the runtime resumes an await once its promise has settled, and the
\* timers of the backoff and of the rate limit fire
SpecTerminates == Init /\ [][Next]_vars /\ WF_vars(Next)

(***************************************************************************)
(* Properties of the crawl, checked under Spec.                            *)
(***************************************************************************)
StepIndex == 1..Len(navigationSteps)

\* C1: within one crawl no two NavigationSteps have the same normalized
\* URL, whatever the links found and whichever pages fail.
C1_NoDuplicateNormalizedUrl ==
    \A i, j \in StepIndex :
        i # j => normalizeUrl(navigationSteps[i].url) # normalizeUrl(navigationSteps[j].url)

\* C1 witness: a finished crawl of at least three steps, one of them failed,
\* whose frontier had taken links of a page already visited in another
\* spelling (the seed came with a query and two slashes).
C1_Witness ==
    /\ cpc = "returned"
    /\ Len(navigationSteps) >= 3
    /\ \E i \in StepIndex : ~navigationSteps[i].scraped
    /\ \E i \in StepIndex : navigationSteps[i].url # normalizeUrl(navigationSteps[i].url)

\* C2: a step with a parentUrl comes after the step of that parent and lies
\* one level deeper; the seed step, and only it, has no parent, and its
\* depth is 0.
C2_ParentDepth ==
    \A i \in StepIndex :
        LET s == navigationSteps[i] IN
        IF s.parentUrl = NULL
        THEN i = 1 /\ s.depth = 0
        ELSE /\ i > 1
             /\ \E j \in 1..(i - 1) : navigationSteps[j].url = s.parentUrl
             /\ \A j \in StepIndex :
                    navigationSteps[j].url = s.parentUrl
                        => j < i /\ s.depth = navigationSteps[j].depth + 1

\* C2 witness: a finished crawl holding a step two levels below the seed.
C2_Witness ==
    /\ cpc = "returned"
    /\ \E i \in StepIndex : navigationSteps[i].depth = 2 /\ navigationSteps[i].parentUrl # NULL

C4_BoundedRetryBackoff ==
    /\ attempts <= SCRAPER_MAX_RETRIES
    /\ \A k \in 1..Len(backoffs) : backoffs[k] = 1000 * Pow2(k - 1)
    /\ cpc \in { "scrape", "backoff" } => attempts < SCRAPER_MAX_RETRIES
    /\ cpc = "scrape" => Len(backoffs) = attempts
    /\ cpc = "backoff" => Len(backoffs) = attempts /\ attempts >= 1
    /\ cpc \in { "discover", "ratelimit" }
           => attempts >= 1 /\ Len(backoffs) = attempts - 1

\* C4 witness: a url whose every allowed attempt threw: the ceiling of
\* attempts was reached after waits of 1000 and 2000 ms.
C4_Witness ==
    /\ cpc \in { "discover", "ratelimit" }
    /\ attempts = SCRAPER_MAX_RETRIES
    /\ backoffs = << 1000, 2000 >>
    /\ ~navigationSteps[Len(navigationSteps)].scraped

\* C5: when scrapePage ends for a url without a page (every attempt made
\* for it failed), the crawl appends that url's step with scraped = false,
\* adds no page and goes on with the loop; it does not abort.
C5_FailedPageRecordedCrawlContinues ==
    [][(cpc = "scrape" /\ cpc' # "backoff" /\ pages' = pages)
         => /\ navigationSteps' = Append(navigationSteps, NavStep(current, FALSE))
            /\ cpc' \in { "discover", "ratelimit" }]_vars

(***************************************************************************)
(* Properties of reindexContent and searchChunks, checked under            *)
(* SpecReindex.                                                            *)
(***************************************************************************)
\* the last reindexContent call has returned or thrown
Ended == rpc = "idle" /\ lastOutcome # "none"

\* that call had created its crawl session
SessionCreated == crawlSession # 0

\* C6: a crawl session whose status is completed or failed keeps that
\* status for good: it does not go back to in_progress, and a completed
\* session is not marked failed later.
C6_TerminalStatusDurable ==
    [][\A i \in 1..Len(sessions) :
          sessions[i].status \in { "completed", "failed" }
              => sessions'[i].status = sessions[i].status]_vars

CorpusUntouched ==
    /\ dbPages = corpusAtStart.pages
    /\ dbChunks = corpusAtStart.chunks

C9_OldCorpusSurvivesEmbeddingFailure ==
    embedFailed
        => /\ corpusAtStart.pages \subseteq dbPages
           /\ corpusAtStart.chunks \subseteq dbChunks
           /\ Ended => lastOutcome = "threw"

\* C10: the rows a searchChunks call reads while a reindexContent call is
\* running are the whole old corpus or the whole new one.
C10_SearchReadsWholeCorpus ==
    (spc = "read" /\ snapMidReindex)
        => snapshot \in { corpusAtStart.chunks, NewCorpusChunks(calls, crawlResult) }

(***************************************************************************)
(* Properties of two overlapping reindex requests, checked under           *)
(* SpecRoute.                                                              *)
(***************************************************************************)
\* C11: at most one reindex runs at a time: a request that arrives with
\* the right token while another request is running is answered 409 at
\* once, and it creates no crawl session and starts no crawl.
C11_OverlappingReindexRejected ==
    \A r \in Requests :
        requests[r].arrivedDuring
            => /\ requests[r].pc = "responded"
               /\ requests[r].status = 409
               /\ requests[r].session = 0
               /\ requests[r].visits = 0

\* C12: while the crawl of a request is in its loop, the browser context
\* it was given, and the browser of that context, are open.
C12_BrowserNotClosedMidCrawl ==
    \A r \in Requests :
        (Visiting(r) /\ requests[r].context # 0) => ContextUsable(r)

\* C13: at the step by which a crawl returns or throws, both module-level
\* handles are null, and the context and the browser the crawl used last
\* are closed.
C13_BrowserReleasedOnExit ==
    [][\A r \in Requests :
          (requests[r].pc \notin { "crawlReturned", "crawlThrew" }
             /\ requests'[r].pc \in { "crawlReturned", "crawlThrew" })
          => /\ browserInstance' = 0
             /\ browserContext' = 0
             /\ requests[r].context # 0
                   => contexts'[requests[r].context].state = "closed"
             /\ requests[r].browser # 0
                   => browsers'[requests[r].browser] = "closed"]_vars

(***************************************************************************)
(* Properties of the chat request, checked under SpecChat.                 *)
(***************************************************************************)
\* the fraction c of hundredths is a number under 0.2
UnderPointTwo(c) == 10 * c.num < 2 * 100 * c.den

\* the response is one of the two refusals, with no citation
IsRefusal(resp) == resp.message \in RefusalMessages /\ resp.citations = <<>>

\* C14: in the chat route, when every similarity between the query and the
\* indexed chunks is below the floor 0.2 (all exactly zero included), the
\* answer is the refusal with no citation, and the confidence computed for
\* the search result does not pass the floor.
C14_LowSimilarityRefused ==
    (/\ chatCaller = "route"
     /\ topK = CHAT_TOP_K
     /\ query = "text"
     /\ \A i \in 1..Len(corpus) : corpus[i].similarity < CONFIDENCE_FLOOR)
        => /\ chpc \in { "scored", "done" } => UnderPointTwo(confidence)
           /\ chpc = "done" => IsRefusal(response)

\* C15: when the confidence score is below 0.2 or the result list is
\* empty, generateResponse returns a refusal with no citation and has made
\* no call to the generation service.
C15_RefusalWithoutGeneration ==
    /\ (chpc = "done" /\ (UnderPointTwo(confidence) \/ Len(searchResults) = 0))
          => IsRefusal(response) /\ llmCalls = 0
    /\ llmCalls > 0 => ~UnderPointTwo(confidence) /\ Len(searchResults) > 0

\* C15 witness: results were found, their confidence is over zero and
\* under the floor, and the request ended refused.
C15_Witness ==
    /\ chpc = "done"
    /\ Len(searchResults) > 0
    /\ confidence.num > 0
    /\ UnderPointTwo(confidence)
    /\ IsRefusal(response)
    /\ llmCalls = 0

\* the number n is cited by a marker of the text
CitedIn(text, n) == \E i \in 1..Len(text) : ParseInt(text[i]) = n

\* C16: the citations of a generated answer have strictly increasing
\* numbers, all in 1..results.length; every number of that range cited in
\* the text has exactly one citation and no other number has one; the
\* citation numbered N carries url, title and category of results[N-1].
C16_CitationsSortedInRange ==
    (chpc = "done" /\ response.message = "generated")
        => LET cs == response.citations IN
           /\ \A i \in 1..Len(cs) : cs[i].number \in 1..Len(searchResults)
           /\ \A i, j \in 1..Len(cs) : i < j => cs[i].number < cs[j].number
           /\ \A n \in 1..Len(searchResults) :
                  CitedIn(rawResponse, n) <=> \E i \in 1..Len(cs) : cs[i].number = n
           /\ \A i \in 1..Len(cs) :
                  /\ cs[i].url = searchResults[cs[i].number].sourceUrl
                  /\ cs[i].text = searchResults[cs[i].number].pageTitle
                  /\ cs[i].category = searchResults[cs[i].number].category

\* C16 witness: a generated text that cites a later result before an
\* earlier one; both are among the citations.
C16_Witness ==
    /\ chpc = "done"
    /\ response.message = "generated"
    /\ Len(rawResponse) = 2
    /\ ParseInt(rawResponse[1]) > ParseInt(rawResponse[2])
    /\ Len(response.citations) = 2

\* C17: searchChunks returns at most topK results, in non-increasing order
\* of similarity, on the normal path and on the fallback path.
C17_AtMostTopKSorted ==
    (chatCaller = "route" /\ chpc \in { "searched", "scored", "done" })
        => /\ Len(searchResults) <= topK
           /\ \A i, j \in 1..Len(searchResults) :
                  i < j => searchResults[i].similarity >= searchResults[j].similarity

\* C17 witness: more chunks than topK, stored in another order than that
\* of their similarity; the best topK were returned.
C17_Witness ==
    /\ chatCaller = "route"
    /\ chpc = "searched"
    /\ topK = 2
    /\ Len(corpus) > topK
    /\ corpus[1].similarity < corpus[2].similarity
    /\ corpus[2].similarity < corpus[3].similarity
    /\ Len(searchResults) = topK
    /\ searchResults[1].id = 3

(***************************************************************************)
(* Properties of generateEmbeddingsBatched, checked under SpecEmbed.       *)
(***************************************************************************)
\* the entries of embedTrace that are batches, in order
BatchesSent == SelectSeq(embedTrace, LAMBDA e : e.kind = "batch")

\* C18: the input is sent in consecutive batches of at most batchSize
\* texts, one after the other, with a delay between two batches and none
\* after the last; the call returns one vector per input text, in input
\* order, in whatever order the service returned the items of a batch.
C18_BatchedInOrder ==
    /\ \A k \in 1..Len(embedTrace) :
           (embedTrace[k].kind = "batch") <=> (k % 2 = 1)
    /\ \A j \in 1..Len(BatchesSent) :
           /\ BatchesSent[j].from = (j - 1) * batchSize
           /\ BatchesSent[j].size >= 1
           /\ BatchesSent[j].size <= batchSize
           /\ j < Len(BatchesSent) => BatchesSent[j].size = batchSize
    /\ epc = "returned"
          => /\ embedTrace # <<>> => embedTrace[Len(embedTrace)].kind = "batch"
             /\ Len(BatchesSent) = (Len(inputTexts) + batchSize - 1) \div batchSize
             /\ Len(allEmbeddings) = Len(inputTexts)
             /\ \A k \in 1..Len(inputTexts) : allEmbeddings[k] = Vector(inputTexts[k])

\* C18 witness: the call returned after two batches or more, one of which
\* the service answered out of order for two different texts.
C18_Witness ==
    /\ epc = "returned"
    /\ Len(BatchesSent) >= 2
    /\ inputTexts[1] # inputTexts[2]
    /\ ~BatchesSent[1].inOrder
    /\ BatchesSent[Len(BatchesSent)].size < batchSize

(***************************************************************************)
(* Properties of chunkPage, checked under SpecChunk.                       *)
(***************************************************************************)
\* the least integer not under a / b, for a >= 0 and b > 0
CeilDiv(a, b) == (a + b - 1) \div b

\* C19 as claimed: a page of W words gives ceil(max(W - 75, 0) / 175)
\* chunks when W >= 20 and none otherwise.
C19_ChunkCountCeil ==
    chunkedContent.returned
        => Len(chunkedContent.chunks) =
              IF pageWords >= 20
              THEN CeilDiv(IF pageWords > 75 THEN pageWords - 75 ELSE 0, 175)
              ELSE 0

\* C19 as amended: a page of W words gives floor((W - 20) / 175) + 1
\* chunks when W >= 20 and none otherwise; the k-th chunk starts at word
\* 175 * (k - 1) and has at most 250 words.
C19_ChunkCountFloor ==
    chunkedContent.returned
        => /\ Len(chunkedContent.chunks) =
                 IF pageWords >= 20 THEN (pageWords - 20) \div 175 + 1 ELSE 0
           /\ \A k \in 1..Len(chunkedContent.chunks) :
                 /\ chunkedContent.chunks[k].start = 175 * (k - 1)
                 /\ chunkedContent.chunks[k].words <= 250

\* C19 witness: a page of 250 words was cut into two chunks, the second
\* one lying within the first.
C19_Witness ==
    /\ chunkedContent.returned
    /\ pageWords = 250
    /\ Len(chunkedContent.chunks) = 2
    /\ chunkedContent.chunks[2].start = 175
    /\ chunkedContent.chunks[2].words = 75

(***************************************************************************)
(* Property of normalizeUrl, checked under SpecUrl.                        *)
(***************************************************************************)
\* C20: normalizeUrl(normalizeUrl(u)) = normalizeUrl(u) for every url u,
\* also when its path ends in more than one slash and when it does not
\* parse.
C20_NormalizeIdempotent ==
    Len(urlOutputs) = 2 => urlOutputs[2] = urlOutputs[1]

(***************************************************************************)
(* Further properties of the crawl, checked under Spec.                    *)
(***************************************************************************)
\* the call is between two pops or past its loop
BetweenPops == cpc \in { "discover", "ratelimit", "loop", "closing", "returned", "threw" }

\* C21: a failure of one page (navigation, extraction, screenshot, page
\* close, link discovery) is recorded in the step of that page and never
\* makes crawlBenefitsPages throw: the call throws only from closeBrowser
\* after its loop, and between two pops every visited url has its step.
C21_PageFailureNeverThrows ==
    /\ [](BetweenPops
            => \A u \in visited :
                 \E i \in StepIndex : normalizeUrl(navigationSteps[i].url) = u)
    /\ [][cpc' = "threw" => cpc = "closing"]_vars

\* C23: no attempt is made on a url after its extraction failed: an attempt
\* follows only a failure of opening or reading the page.
C23_ExtractionNotRetried ==
    [][attempts' = attempts + 1 => lastError # "extraction"]_vars

\* C25: every pop appends exactly one step, so between two pops the number
\* of steps is the number of pops; a step once appended stays as it is.
C25_OneStepPerPop ==
    /\ [](BetweenPops => Len(navigationSteps) = pops)
    /\ [][/\ Len(navigationSteps') >= Len(navigationSteps)
          /\ SubSeq(navigationSteps', 1, Len(navigationSteps)) = navigationSteps]_vars

\* C26: the frontier never holds two entries of the same normalized url nor
\* an entry whose normalized url is visited, and the entry a pop takes is
\* never one already visited (the skip of l.405-407 is not taken).
C26_FrontierFresh ==
    /\ [](\A i, j \in 1..Len(queue) :
             i # j => normalizeUrl(queue[i].url) # normalizeUrl(queue[j].url))
    /\ [](\A i \in 1..Len(queue) : normalizeUrl(queue[i].url) \notin visited)
    /\ [][(cpc = "loop" /\ LoopContinues(queue, pages))
             => /\ normalizeUrl(Head(queue).url) \notin visited
                /\ cpc' = "scrape"]_vars

\* C26 witness: a link discovery on the second page or a later one met a
\* link whose normalized url was visited and queued another link.
C26_Witness ==
    /\ cpc = "ratelimit"
    /\ cycleDropped
    /\ Len(navigationSteps) >= 2
    /\ \E i \in 1..Len(queue) : queue[i].parentUrl = current.url

\* C27: the steps are in the order of the pops and their depths never
\* decrease along the list; what waits in the frontier is no shallower than
\* any step taken.
C27_DepthNonDecreasing ==
    /\ \A i, j \in StepIndex : i < j => navigationSteps[i].depth <= navigationSteps[j].depth
    /\ \A i \in StepIndex : \A k \in 1..Len(queue) :
          navigationSteps[i].depth <= queue[k].depth
    /\ (cpc \in { "discover", "ratelimit" } /\ Len(navigationSteps) > 0)
          => navigationSteps[Len(navigationSteps)].url = current.url

\* C27 witness: a finished crawl that took two steps at depth 1 and then a
\* step at depth 2.
C27_Witness ==
    /\ cpc = "returned"
    /\ \E i, j, k \in StepIndex :
          /\ i < j /\ j < k
          /\ navigationSteps[i].depth = 1
          /\ navigationSteps[j].depth = 1
          /\ navigationSteps[k].depth = 2

\* C28: every pop after the first comes after a politeness delay slept
\* after the fetch and the link discovery of the page before, and every
\* delay lies in [RATE_LIMIT_MIN_MS, RATE_LIMIT_MAX_MS].
C28_DelayBeforeEveryLaterPop ==
    /\ []((cpc = "loop" /\ pops > 0 /\ LoopContinues(queue, pages))
            => delayMs \in RATE_LIMIT_MIN_MS..RATE_LIMIT_MAX_MS)
    /\ [](delayMs # 0 => delayMs \in RATE_LIMIT_MIN_MS..RATE_LIMIT_MAX_MS)
    /\ [][delayMs' # delayMs /\ delayMs' # 0 => cpc = "ratelimit"]_vars

\* C28 witness: the second pop is about to be made, after a delay of 2000
\* ms or more.
C28_Witness ==
    /\ cpc = "loop"
    /\ pops = 1
    /\ LoopContinues(queue, pages)
    /\ delayMs >= RATE_LIMIT_MIN_MS

(***************************************************************************)
(* Further properties of reindexContent, checked under SpecReindex.        *)
(***************************************************************************)
\* C22: a reindex whose crawl returned no page is reported as an error:
\* reindexContent does not return normally and POST does not answer 200
\* success.
C22_ZeroPagesReportedAsError ==
    (Ended /\ zeroPages)
        => /\ lastOutcome = "threw"
           /\ ReindexResponse(lastOutcome).code # 200
           /\ ReindexResponse(lastOutcome).status = "error"

\* the rows of the crawl of the running call are all stored: its steps,
\* its pages, and every chunk of every page with the embedding of its text
CrawlStored ==
    /\ \A i \in 1..Len(crawlResult.steps) :
          NavStepRow(crawlSession, crawlResult.steps, i) \in dbNavSteps
    /\ \A i \in 1..Len(crawlResult.pages) :
          LET pg == crawlResult.pages[i] IN
          /\ [call |-> calls, url |-> pg.url] \in dbPages
          /\ \A j \in 1..pg.nchunks :
                [call |-> calls, pageId |-> [call |-> calls, url |-> pg.url],
                 url |-> pg.url, j |-> j,
                 embedding |-> [url |-> pg.url, j |-> j]] \in dbChunks

\* C24: a session is marked completed only by the call that created it,
\* after its crawl has returned and its steps, its pages and all their
\* chunks with their embeddings are stored; once the session is completed
\* the call writes no step, page or chunk row.
C24_CompletedAfterAllStored ==
    /\ [][\A i \in 1..Len(sessions) :
            (sessions[i].status # "completed" /\ sessions'[i].status = "completed")
                => /\ i = crawlSession
                   /\ crawlResult # NoResult
                   /\ Len(crawlResult.pages) > 0
                   /\ CrawlStored]_vars
    /\ [][(crawlSession # 0 /\ sessions[crawlSession].status = "completed")
            => /\ dbNavSteps' = dbNavSteps
               /\ dbPages' = dbPages
               /\ dbChunks' = dbChunks]_vars

\* C24 witness: the session of a call that crawled two pages and stored two
\* chunks or more has just been marked completed.
C24_Witness ==
    /\ rpc = "logSuccess"
    /\ sessions[crawlSession].status = "completed"
    /\ Len(crawlResult.pages) = 2
    /\ chunksStored >= 2
    /\ CrawlStored

(***************************************************************************)
(* Properties of searchChunks over stored embedding strings, checked       *)
(* under SpecSim, and of the confidence score, checked under SpecChat.     *)
(***************************************************************************)
\* C29: a chunk whose stored embedding fails validation is returned with
\* similarity 0 if it is returned, and never makes the search throw: with
\* the services up the search throws exactly when the query embedding is
\* invalid.
C29_InvalidEmbeddingScoresZero ==
    /\ simpc = "returned"
          => \A i \in 1..Len(simResults) :
                storedEmbeddings[simResults[i].id].kind # "valid"
                    => simResults[i].similarity = 0
    /\ simpc = "threw: invalid query embedding" => queryEmbedding.kind # "valid"
    /\ (queryEmbedding.kind # "valid" /\ simpc # "start") => simpc # "returned"

\* the total of the similarities, taken from the end of the list
RECURSIVE TotalFromEnd(_)
TotalFromEnd(rs) ==
    IF rs = <<>>
    THEN 0
    ELSE TotalFromEnd(SubSeq(rs, 1, Len(rs) - 1)) + rs[Len(rs)].similarity

\* C30: the confidence the chat route computes is 0 for an empty result
\* list and the arithmetic mean of the similarities for any other.
C30_AverageIsMean ==
    (chatCaller = "route" /\ chpc \in { "scored", "done" })
        => /\ confidence.den > 0
           /\ IF Len(searchResults) = 0
              THEN confidence.num = 0
              ELSE confidence.num * Len(searchResults)
                       = TotalFromEnd(searchResults) * confidence.den

\* C30 witness: the confidence of two results of different similarity,
\* one of them negative, has been computed.
C30_Witness ==
    /\ chatCaller = "route"
    /\ chpc = "scored"
    /\ Len(searchResults) = 2
    /\ searchResults[1].similarity > 0
    /\ searchResults[2].similarity < 0
    /\ confidence.num * 2 = (searchResults[1].similarity + searchResults[2].similarity)
                               * confidence.den

(***************************************************************************)
(* Further properties of chunkPage, checked under SpecChunk.               *)
(***************************************************************************)
\* the windows createChunks cuts the page into, before any is discarded
RawChunks == createChunks(pageWords, MAX_CHUNK_WORDS, CHUNK_OVERLAP_WORDS)

\* C31: the k-th window cut from a page (k from 0) starts at word 175 * k
\* and holds at most 250 words; every chunk kept holds at least 20 words
\* and is one of the windows.
C31_ChunkOffsetsAndSizes ==
    chunkedContent.returned
        => /\ \A k \in 1..Len(RawChunks) :
                 /\ RawChunks[k].start = (k - 1) * 175
                 /\ RawChunks[k].words <= 250
                 /\ RawChunks[k].words >= 1
                 /\ RawChunks[k].start + RawChunks[k].words <= pageWords
           /\ \A k \in 1..Len(chunkedContent.chunks) :
                 /\ chunkedContent.chunks[k].words >= 20
                 /\ chunkedContent.chunks[k].words <= 250
                 /\ \E n \in 1..Len(RawChunks) : RawChunks[n] = chunkedContent.chunks[k]

\* C31 witness: a page cut into three windows, the third of them under 20
\* words and discarded.
C31_Witness ==
    /\ chunkedContent.returned
    /\ Len(RawChunks) = 3
    /\ RawChunks[3].words < 20
    /\ Len(chunkedContent.chunks) = 2

\* C38: of a page of 20 words or more, every word lies in a chunk that is
\* kept.
C38_EveryWordInAKeptChunk ==
    (chunkedContent.returned /\ pageWords >= 20)
        => \A w \in 0..(pageWords - 1) :
              \E k \in 1..Len(chunkedContent.chunks) :
                 /\ chunkedContent.chunks[k].start <= w
                 /\ w < chunkedContent.chunks[k].start + chunkedContent.chunks[k].words

\* C38 witness: a page of more than 250 words whose last window was
\* discarded.
C38_Witness ==
    /\ chunkedContent.returned
    /\ pageWords > 250
    /\ Len(chunkedContent.chunks) < Len(RawChunks)
    /\ LET last == chunkedContent.chunks[Len(chunkedContent.chunks)]
       IN  last.start + last.words = pageWords

(***************************************************************************)
(* Properties of the endpoints under /api/admin, checked under SpecAdmin.  *)
(***************************************************************************)
\* the request carries the configured token as a bearer token
CarriesAdminToken ==
    /\ adminToken.kind = "string"
    /\ adminRequest.authorization = Str(<< Bearer >> \o adminToken.text)

\* C32: a request that does not carry a bearer token equal to the
\* configured ADMIN_TOKEN is answered 401, no reindex is started and no
\* data is returned, whatever the configuration, an unset ADMIN_TOKEN
\* included.
C32_OnlyWithAdminToken ==
    (adminResponse # NotAnswered /\ ~CarriesAdminToken)
        => (adminResponse.code = 401 /\ ~adminResponse.performed)

(***************************************************************************)
(* Properties of what reindexContent leaves in the store, checked under    *)
(* SpecReindex.                                                            *)
(***************************************************************************)
\* the stored steps of the crawl session of the call
StoredStepsOfSession == { row \in dbNavSteps : row.crawlSessionId = crawlSession }

\* C33: once reindexContent has finished, the stored steps of its crawl
\* session are as many as the steps the crawl recorded, also when no page
\* was scraped.
C33_EveryStepSaved ==
    (Ended /\ SessionCreated /\ crawlResult # NoResult)
        => Cardinality(StoredStepsOfSession) = Len(crawlResult.steps)

\* the chunk rows the running call has stored
ChunksOfCall == { row \in dbChunks : row.call = calls }

C39_StatusReflectsLastCall ==
    (Ended /\ SessionCreated)
        => /\ Len(adminLog) = Len(sessions)
           /\ lastReindexStatus(adminLog) =
                 IF sessions[crawlSession].status = "completed"
                 THEN "success"
                 ELSE "error"

(***************************************************************************)
(* Properties of the size and the end of a crawl, checked under Spec.      *)
(***************************************************************************)
\* C34: a crawl visits at most MAX_PAGES_TO_CRAWL urls: its steps are never
\* more than MAX_PAGES_TO_CRAWL, however many visited pages fail.
C34_StepsWithinBudget ==
    Len(navigationSteps) <= MAX_PAGES_TO_CRAWL

\* the urls of the steps with scraped = true, in the order of the steps
ScrapedStepUrls ==
    LET scraped == SelectSeq(navigationSteps, LAMBDA st : st.scraped)
    IN  [i \in 1..Len(scraped) |-> scraped[i].url]

\* C36: when crawlBenefitsPages returns, the pages are as many as the steps
\* with scraped = true, and the i-th page has the url of the i-th such step.
C36_PagesMatchScrapedSteps ==
    cpc = "returned"
        => /\ Len(pages) = Len(ScrapedStepUrls)
           /\ \A i \in 1..Len(pages) : pages[i] = ScrapedStepUrls[i]

\* C36 witness: the crawl returned two pages, with a step that was not
\* scraped before the step of the second page.
C36_Witness ==
    /\ cpc = "returned"
    /\ Len(pages) = 2
    /\ \E i, k \in StepIndex :
          /\ i < k
          /\ ~navigationSteps[i].scraped
          /\ navigationSteps[k].scraped
          /\ navigationSteps[k].url = pages[2]

(***************************************************************************)
(* Termination of the crawl, checked under SpecTerminates.                 *)
(***************************************************************************)
\* the normalized urls a crawl can pop: those of the crawlable anchors of
\* the site and that of the entry the seed is queued as
ReachableNormalized ==
    { normalizeUrl(u) : u \in { l \in LinkUniverse : shouldCrawlUrl(l) } }
        \cup { normalizeUrl(normalizeUrl(AMEX_BENEFITS_URL)) }

\* the call has ended
CrawlEnded == cpc \in { "returned", "threw" }

====
